---- MODULE Spec2Model ----
(***************************************************************************)
(* Whether Agents: the agent orchestrator, the position executor, the      *)
(* market resolver and the bot webhook, over the key-value store, the      *)
(* execution queue and the market API.                                     *)
(*                                                                         *)
(* Units.  The source computes with Decimal and float; the model keeps     *)
(* the same quantities as exact integers:                                  *)
(*   sizes          in millionths of a TON        (0.05 TON  = 50000)      *)
(*   prices         in hundredths                 (0.40      = 40)         *)
(*   probabilities  in hundredths                 (0.75      = 75)         *)
(*   edges          in hundredths                 (0.07      = 7)          *)
(*   PnL            in size-unit x price-unit     (1 TON     = 100000000)  *)
(*   time           in seconds                                             *)
(***************************************************************************)
EXTENDS Integers, Sequences, FiniteSets, TLC

(***************************************************************************)
(* Bounds of the model.                                                    *)
(***************************************************************************)
NumAgents == 2
NumMarkets == 2
MaxTime == 3600
TickSeconds == 1800
MaxCycles == 1
MaxFaults == 1
MaxBatch == 2
MaxUpdates == 2
FreshCycles == 2
MaxRuns == 2
ManyMarkets == 101

(***************************************************************************)
(* Program constants.                                                      *)
(***************************************************************************)
FreshSeconds == 3600
PredictionQueryLimit == 100
DefaultBaseSize == 50000
DefaultMaxPositionSize == 200000
DefaultMinEdge == 5

Absent == -1
NoId == 0

Min(a, b) == IF a <= b THEN a ELSE b
Max(a, b) == IF a >= b THEN a ELSE b
Abs(a) == IF a >= 0 THEN a ELSE -a

Confidences == {"low", "medium", "high", "very_high"}
Directions == {"YES", "NO", "dynamic"}
ScalingRules == {"fixed", "confidence_scaled", "edge_scaled", "kelly", "martingale"}

(***************************************************************************)
(* CONFIDENCE_ORDER.get(c, default)                                        *)
(***************************************************************************)
CONFIDENCE_ORDER(c, default) ==
    CASE c = "low" -> 0
      [] c = "medium" -> 1
      [] c = "high" -> 2
      [] c = "very_high" -> 3
      [] OTHER -> default

(***************************************************************************)
(* The confidence multiplier table of calculate_position_size, in tenths.  *)
(***************************************************************************)
confidence_multiplier(c) ==
    CASE c = "low" -> 5
      [] c = "medium" -> 10
      [] c = "high" -> 15
      [] c = "very_high" -> 20
      [] OTHER -> 10

(***************************************************************************)
(* The size a scaling rule gives before the maximum is applied.            *)
(*   confidence_scaled: base * multiplier                                  *)
(*   edge_scaled:       base * min(edge * 10, 2.0)                         *)
(*   kelly:             base * max(0, p - q) * 0.5   with q = 1 - p        *)
(*   anything else:     base                                               *)
(***************************************************************************)
\* the sizes with a full Kelly fraction
scaled_size_full_kelly(prediction, strategy) ==
    LET base_size == IF strategy.baseSize = Absent
                     THEN DefaultBaseSize ELSE strategy.baseSize
        scaling_rule == strategy.scalingRule
        p == prediction.predictedProbability
        q == 100 - p
    IN  CASE scaling_rule = "confidence_scaled" ->
               (base_size * confidence_multiplier(prediction.confidence)) \div 10
          [] scaling_rule = "edge_scaled" ->
               (base_size * Min(prediction.edge * 10, 200)) \div 100
          [] scaling_rule = "kelly" ->
               (base_size * Max(0, p - q)) \div 100
          [] OTHER -> base_size

scaled_size(prediction, strategy) ==
    LET base_size == IF strategy.baseSize = Absent
                     THEN DefaultBaseSize ELSE strategy.baseSize
        scaling_rule == strategy.scalingRule
        p == prediction.predictedProbability
        q == 100 - p
    IN  CASE scaling_rule = "confidence_scaled" ->
               (base_size * confidence_multiplier(prediction.confidence)) \div 10
          [] scaling_rule = "edge_scaled" ->
               (base_size * Min(prediction.edge * 10, 200)) \div 100
          [] scaling_rule = "kelly" ->
               (base_size * Max(0, p - q)) \div 200
          [] OTHER -> base_size

max_position_size(strategy) ==
    IF strategy.maxPositionSize = Absent
    THEN DefaultMaxPositionSize ELSE strategy.maxPositionSize

calculate_position_size_unclamped(prediction, strategy) ==
    IF strategy.scalingRule = "confidence_scaled"
    THEN scaled_size(prediction, strategy)
    ELSE Min(scaled_size(prediction, strategy), max_position_size(strategy))

calculate_position_size(prediction, strategy) ==
    Min(scaled_size(prediction, strategy), max_position_size(strategy))

(***************************************************************************)
(* evaluate_entry_condition: a condition is [field, operator, value,       *)
(* isStr]; isStr says that the configured value is a string (a confidence  *)
(* tier name), which the confidence branch maps through CONFIDENCE_ORDER.  *)
(***************************************************************************)
compare(operator, actual, value) ==
    CASE operator = "gt" -> actual > value
      [] operator = "lt" -> actual < value
      [] operator = "gte" -> actual >= value
      [] operator = "lte" -> actual <= value
      [] operator = "eq" -> actual = value
      [] OTHER -> TRUE

\* an evaluation that fails a condition on a field it does not know
evaluate_entry_condition_strict(condition, prediction) ==
    /\ condition.field \in {"edge", "confidence", "market_probability",
                            "forecast_probability"}
    /\ CASE condition.field = "edge" ->
               compare(condition.operator, prediction.edge, condition.value)
         [] condition.field = "confidence" ->
               compare(condition.operator,
                       CONFIDENCE_ORDER(prediction.confidence, 0),
                       IF condition.isStr
                       THEN CONFIDENCE_ORDER(condition.value, 1)
                       ELSE condition.value)
         [] condition.field = "market_probability" ->
               compare(condition.operator, prediction.marketProbability,
                       condition.value)
         [] OTHER ->
               compare(condition.operator, prediction.predictedProbability,
                       condition.value)

evaluate_entry_condition(condition, prediction) ==
    CASE condition.field = "edge" ->
               compare(condition.operator, prediction.edge, condition.value)
      [] condition.field = "confidence" ->
               compare(condition.operator,
                       CONFIDENCE_ORDER(prediction.confidence, 0),
                       IF condition.isStr
                       THEN CONFIDENCE_ORDER(condition.value, 1)
                       ELSE condition.value)
      [] condition.field = "market_probability" ->
               compare(condition.operator, prediction.marketProbability,
                       condition.value)
      [] condition.field = "forecast_probability" ->
               compare(condition.operator, prediction.predictedProbability,
                       condition.value)
      [] OTHER -> TRUE

(***************************************************************************)
(* should_open_position: minimum confidence, minimum edge, then every      *)
(* entry condition.                                                        *)
(***************************************************************************)
should_open_position(prediction, strategy) ==
    LET min_confidence == strategy.minConfidence
        prediction_confidence_order == CONFIDENCE_ORDER(prediction.confidence, 0)
        required_confidence_order ==
            IF min_confidence = "absent" THEN 1
            ELSE CONFIDENCE_ORDER(min_confidence, 1)
        min_edge == IF strategy.minEdge = Absent
                    THEN DefaultMinEdge ELSE strategy.minEdge
    IN  /\ ~(prediction_confidence_order < required_confidence_order)
        /\ ~(prediction.edge < min_edge)
        /\ \A i \in 1..Len(strategy.entryConditions) :
               evaluate_entry_condition(strategy.entryConditions[i], prediction)

(***************************************************************************)
(* filter_markets_for_strategy: the test one market has to pass, and the   *)
(* filter over the fetched list (input order is kept).                     *)
(***************************************************************************)
\* a test whose next_day and weekly buckets have no lower end
market_passes_cumulative(market, strategy, clock) ==
    LET allowed_types == strategy.types
        allowed_locations == strategy.locations
        time_horizons == strategy.timeHorizon
        seconds_until_resolution == market.resolutionTime - clock
    IN  /\ ~(allowed_types # {} /\ market.type \notin allowed_types)
        /\ ~(allowed_locations # {} /\ market.location \notin allowed_locations)
        /\ \/ time_horizons = {}
           \/ "same_day" \in time_horizons
                /\ seconds_until_resolution <= 24 * 3600
           \/ "next_day" \in time_horizons
                /\ seconds_until_resolution <= 48 * 3600
           \/ "weekly" \in time_horizons
                /\ seconds_until_resolution <= 168 * 3600

market_passes(market, strategy, clock) ==
    LET allowed_types == strategy.types
        allowed_locations == strategy.locations
        time_horizons == strategy.timeHorizon
        seconds_until_resolution == market.resolutionTime - clock
    IN  /\ ~(allowed_types # {} /\ market.type \notin allowed_types)
        /\ ~(allowed_locations # {} /\ market.location \notin allowed_locations)
        /\ \/ time_horizons = {}
           \/ "same_day" \in time_horizons
                /\ seconds_until_resolution <= 24 * 3600
           \/ "next_day" \in time_horizons
                /\ 24 * 3600 < seconds_until_resolution
                /\ seconds_until_resolution <= 48 * 3600
           \/ "weekly" \in time_horizons
                /\ 48 * 3600 < seconds_until_resolution
                /\ seconds_until_resolution <= 168 * 3600

filter_markets_for_strategy(marketList, strategy, clock) ==
    SelectSeq(marketList, LAMBDA m : market_passes(m, strategy, clock))

(***************************************************************************)
(* analyze_market_for_agent / Prediction.create: the prediction record     *)
(* built from the model's reply.  edge = |predicted - market price|.       *)
(* The identifier is fresh (uuid4); the model numbers the records.         *)
(***************************************************************************)
Prediction_create(newId, agent, market, reply, clock) ==
    [predictionId |-> newId,
     agentId |-> agent.agentId,
     marketId |-> market.id,
     predictedProbability |-> reply.predictedProbability,
     marketProbability |-> market.yesPrice,
     confidence |-> reply.confidence,
     edge |-> Abs(reply.predictedProbability - market.yesPrice),
     recommendedDirection |-> reply.recommendedDirection,
     createdAt |-> clock,
     wasCorrect |-> "None",
     actualOutcome |-> "None",
     cycle |-> 0]

(***************************************************************************)
(* queue_position: the execution request sent to the queue.                *)
(***************************************************************************)
queue_position_message(agent, market, prediction, strategy, clock) ==
    LET size == calculate_position_size(prediction, strategy)
        direction == IF strategy.positionDirection \in {"YES", "NO"}
                     THEN strategy.positionDirection
                     ELSE prediction.recommendedDirection
    IN  [agentId |-> agent.agentId,
         marketId |-> market.id,
         direction |-> direction,
         size |-> size,
         predictionId |-> prediction.predictionId,
         entryPrice |-> IF direction = "YES" THEN market.yesPrice
                        ELSE market.noPrice,
         telegramChatId |-> agent.telegramChatId,
         timestamp |-> clock,
         messageId |-> NoId]

(***************************************************************************)
(* resolve_position: won, PnL and exit price of one position item for a    *)
(* resolved market, and the item after update_position_status(CLOSED).     *)
(***************************************************************************)
position_won(direction, outcome) ==
    \/ direction = "YES" /\ outcome = "YES"
    \/ direction = "NO" /\ outcome = "NO"

position_pnl_unsigned(position_item, market) ==
    IF position_won(position_item.direction, market.outcome)
    THEN position_item.size * (100 - position_item.entryPrice)
    ELSE position_item.size * position_item.entryPrice

position_pnl(position_item, market) ==
    IF position_won(position_item.direction, market.outcome)
    THEN position_item.size * (100 - position_item.entryPrice)
    ELSE (-position_item.size) * position_item.entryPrice

update_position_status(position_item, status, exit_price, pnl) ==
    [position_item EXCEPT !.status = status,
                          !.exitPrice = exit_price,
                          !.pnl = pnl,
                          !.hasPnl = TRUE]

\* a resolution that exits at the entry price
resolve_position_at_entry(position_item, market) ==
    update_position_status(position_item, "closed",
                           position_item.entryPrice,
                           position_pnl(position_item, market))

resolve_position(position_item, market) ==
    update_position_status(
        position_item, "closed",
        IF position_won(position_item.direction, market.outcome) THEN 100 ELSE 0,
        position_pnl(position_item, market))

(***************************************************************************)
(* State.                                                                  *)
(*   agents, predictions, positions : the tables of the key-value store    *)
(*   markets, paperPositions        : the market API's markets and the     *)
(*                                    paper positions registered with it   *)
(*   queue, nextMessageId           : the execution queue                  *)
(*   now                            : the clock                            *)
(*   modelCalls                     : invocations of the model endpoint    *)
(*   orch, exec, res, hook          : the running invocation of each       *)
(*                                    handler (position and locals)        *)
(*   faults                         : dependency failures injected so far  *)
(*   call                           : argument and result of a function    *)
(*                                    applied on its own                   *)
(*   leaderboard                    : the leaderboard table, keyed by      *)
(*                                    period and rank                      *)
(*   userState                      : the webhook's conversation state     *)
(*                                    per chat (_user_state)               *)
(*   lb                             : the running invocation of the        *)
(*                                    leaderboard updater                  *)
(***************************************************************************)
VARIABLES agents, predictions, positions, markets, paperPositions,
          queue, nextMessageId, now, modelCalls,
          orch, exec, res, hook, faults, call,
          leaderboard, userState, lb

vars == <<agents, predictions, positions, markets, paperPositions,
          queue, nextMessageId, now, modelCalls,
          orch, exec, res, hook, faults, call,
          leaderboard, userState, lb>>

\* what only the leaderboard updater and the strategy dialogue of the
\* webhook write
boardVars == <<leaderboard, userState, lb>>

AgentIds == 1..NumAgents
MarketIds == 1..NumMarkets

(***************************************************************************)
(* Strategy documents (the strategyConfig of an agent).                    *)
(***************************************************************************)
BaseStrategy ==
    [types |-> {}, locations |-> {}, timeHorizon |-> {},
     minConfidence |-> "absent", minEdge |-> Absent,
     entryConditions |-> <<>>,
     baseSize |-> Absent, scalingRule |-> "fixed",
     maxPositionSize |-> Absent,
     positionDirection |-> "dynamic",
     wellFormed |-> TRUE]

\* no marketSelection dictionary: filter_markets_for_strategy raises
MalformedStrategy == [BaseStrategy EXCEPT !.wellFormed = FALSE]

\* trades one market type only, always on the YES side, confidence scaled
YesStrategy ==
    [BaseStrategy EXCEPT !.types = {"temperature_high"},
                         !.timeHorizon = {"same_day", "next_day"},
                         !.minConfidence = "high",
                         !.entryConditions =
                             <<[field |-> "edge", operator |-> "gte",
                                value |-> 10, isStr |-> FALSE]>>,
                         !.baseSize = 150000,
                         !.scalingRule = "confidence_scaled",
                         !.positionDirection = "YES"]

(***************************************************************************)
(* Replies of the model endpoint to analyze_market.                        *)
(***************************************************************************)
ModelReplies ==
    {[predictedProbability |-> 75, confidence |-> "high",
      recommendedDirection |-> "YES"]}

(***************************************************************************)
(* The shapes a reply of the model endpoint can have, and the exception    *)
(* each parsing function leaves with ("none": it returns).  analyze_market *)
(* wraps json.JSONDecodeError and KeyError into ValueError("Failed to      *)
(* parse market analysis"); synthesize_strategy wraps json.JSONDecodeError *)
(* into ValueError("Failed to parse strategy response") and lets the       *)
(* KeyError of SynthesizedStrategy.from_dict through.                      *)
(***************************************************************************)
ReplyShapes == {"well_formed", "not_json", "missing_field"}
MalformedShapes == {"not_json", "missing_field"}

\* a parser that takes every reply
analyze_market_accepting(shape) == "none"

analyze_market_raises(shape) ==
    CASE shape = "not_json" -> "ValueError"
      [] shape = "missing_field" -> "ValueError"
      [] OTHER -> "none"

synthesize_strategy_raises(shape) ==
    CASE shape = "not_json" -> "ValueError"
      [] shape = "missing_field" -> "KeyError"
      [] OTHER -> "none"

(***************************************************************************)
(* Markets of the market API.                                              *)
(***************************************************************************)
MarketRecord(m) ==
    [id |-> m,
     type |-> IF m % 2 = 1 THEN "temperature_high" ELSE "precipitation",
     location |-> IF m % 2 = 1 THEN "NYC" ELSE "MIA",
     yesPrice |-> IF m % 2 = 1 THEN 40 ELSE 72,
     noPrice |-> IF m % 2 = 1 THEN 60 ELSE 28,
     status |-> "active",
     resolutionTime |-> 30 * 3600,
     outcome |-> "None"]

\* the elements of a finite set of numbers in increasing order
SeqOfSet(S) ==
    [i \in 1..Cardinality(S) |->
        CHOOSE x \in S : Cardinality({y \in S : y < x}) = i - 1]

\* WhetherAPIClient.get_markets(status=...)
get_markets(status) ==
    LET ids == {m \in DOMAIN markets : markets[m].status = status}
        order == SeqOfSet(ids)
    IN  [i \in 1..Len(order) |-> markets[order[i]]]

(***************************************************************************)
(* Store reads.                                                            *)
(***************************************************************************)
\* a scan without the status filter
get_active_agents_unfiltered ==
    LET order == SeqOfSet(DOMAIN agents)
    IN  [i \in 1..Len(order) |-> agents[order[i]]]

\* DynamoDBClient.get_active_agents
get_active_agents ==
    LET order == SeqOfSet({a \in DOMAIN agents : agents[a].status = "active"})
    IN  [i \in 1..Len(order) |-> agents[order[i]]]

\* DynamoDBClient.get_predictions_by_agent: newest first, at most limit
\* items; the result is given as the set of their indices in the table,
\* which is kept in creation order.
get_predictions_by_agent(agent_id, limit) ==
    LET mine == {i \in 1..Len(predictions) : predictions[i].agentId = agent_id}
    IN  {i \in mine : Cardinality({j \in mine : j > i}) < limit}

\* DynamoDBClient.get_prediction_for_market: the newest of the 100 newest
\* predictions of the agent that is about the market, or none
get_prediction_for_market(agent_id, market_id) ==
    LET recent == get_predictions_by_agent(agent_id, PredictionQueryLimit)
        hits == {i \in recent : predictions[i].marketId = market_id}
    IN  IF hits = {} THEN NoId
        ELSE CHOOSE i \in hits : \A j \in hits : j <= i

(***************************************************************************)
(* Initial state: the agents have been created (status active, counters    *)
(* zero), the tables of predictions and positions are empty, every market  *)
(* is active, no handler is running.                                       *)
(***************************************************************************)
AgentRecord(a, strategy) ==
    [agentId |-> a, userId |-> a, telegramChatId |-> a,
     strategy |-> strategy, status |-> "active",
     totalTrades |-> 0, winningTrades |-> 0, totalPnl |-> 0]

OrchIdle ==
    [pc |-> "idle", cycle |-> 0, agents |-> <<>>, markets |-> <<>>,
     ai |-> 0, relevant |-> <<>>, mi |-> 0,
     predictions_created |-> 0, positions_queued |-> 0,
     results |-> <<>>, statusCode |-> 0,
     visited |-> {}, upstream |-> 0, parse_errors |-> {}]
ExecIdle == [pc |-> "idle"]
ResIdle == [pc |-> "idle", run |-> 0]
LbIdle == [pc |-> "idle", run |-> 0, items |-> <<>>, raised |-> "none",
           statusCode |-> 0]
HookIdle == [pc |-> "idle", updates |-> 0, body |-> "none", raised |-> FALSE,
             statusCode |-> 0, reply |-> "none", error |-> "none"]
NoCall == [fn |-> "none", done |-> FALSE]

InitCommon ==
    /\ predictions = <<>>
    /\ paperPositions = <<>>
    /\ now = 0
    /\ modelCalls = 0
    /\ orch = OrchIdle
    /\ exec = ExecIdle
    /\ res = ResIdle
    /\ hook = HookIdle
    /\ faults = 0
    /\ leaderboard = <<>>
    /\ userState = <<>>
    /\ lb = LbIdle

Init ==
    /\ InitCommon
    /\ positions = <<>>
    /\ call = NoCall
    /\ queue = <<>>
    /\ nextMessageId = 1
    /\ \E s \in {BaseStrategy, MalformedStrategy} :
         agents = [a \in AgentIds |->
                     AgentRecord(a, IF a = 1 THEN s ELSE YesStrategy)]
    /\ markets = [m \in MarketIds |-> MarketRecord(m)]

(***************************************************************************)
(* The scheduled handlers (orchestrator, resolver, leaderboard updater)    *)
(* and the queue consumer (executor) are taken one invocation at a time;   *)
(* the clock advances and                                                  *)
(* markets resolve between invocations.  The webhook runs at any moment.   *)
(***************************************************************************)
Quiet ==
    /\ orch.pc = "idle"
    /\ exec.pc = "idle"
    /\ res.pc = "idle"
    /\ lb.pc = "idle"

(***************************************************************************)
(* The clock and the market API's own behaviour.                           *)
(***************************************************************************)
Tick ==
    /\ Quiet
    /\ now < MaxTime
    /\ now' = now + TickSeconds
    /\ UNCHANGED <<agents, predictions, positions, markets, paperPositions,
                   queue, nextMessageId, modelCalls, orch, exec, res, hook,
                   faults, call, boardVars>>

MarketResolves(outcomes) ==
    \E m \in DOMAIN markets, outcome \in outcomes :
        /\ Quiet
        /\ markets[m].status = "active"
        /\ markets' = [markets EXCEPT ![m].status = "resolved",
                                      ![m].outcome = outcome]
        /\ UNCHANGED <<agents, predictions, positions, paperPositions,
                       queue, nextMessageId, now, modelCalls, orch, exec,
                       res, hook, faults, call, boardVars>>

(***************************************************************************)
(* Agent orchestrator: lambda_handler.                                     *)
(***************************************************************************)
OrchOthers == <<agents, positions, markets, paperPositions, now,
                exec, res, hook, call, boardVars>>

\* db.get_active_agents(); an empty list ends the run with status 200
OrchFetchAgents(maxCycles) ==
    /\ Quiet
    /\ orch.cycle < maxCycles
    /\ LET fetched == get_active_agents
       IN  orch' = [OrchIdle EXCEPT
                      !.cycle = orch.cycle + 1,
                      !.agents = fetched,
                      !.pc = IF fetched = <<>> THEN "done" ELSE "fetch_markets",
                      !.statusCode = IF fetched = <<>> THEN 200 ELSE 0]
    /\ UNCHANGED <<OrchOthers, predictions, queue, nextMessageId,
                   modelCalls, faults>>

\* api.get_active_markets(): a failure ends the run with status 500, an
\* empty list with status 200
OrchFetchMarkets(outcomes) ==
    /\ orch.pc = "fetch_markets"
    /\ \E outcome \in outcomes :
         /\ outcome # "ok" => faults < MaxFaults
         /\ faults' = IF outcome = "ok" THEN faults ELSE faults + 1
         /\ LET fetched == get_markets("active")
            IN  orch' = IF outcome # "ok"
                        THEN [orch EXCEPT !.pc = "done", !.statusCode = 500,
                                          !.upstream = @ + 1]
                        ELSE IF fetched = <<>>
                        THEN [orch EXCEPT !.pc = "done", !.statusCode = 200,
                                          !.markets = fetched]
                        ELSE [orch EXCEPT !.pc = "agent", !.ai = 1,
                                          !.markets = fetched]
    /\ UNCHANGED <<OrchOthers, predictions, queue, nextMessageId, modelCalls>>

\* the result entry process_agent returns
AgentResult(agent, analyzed, created, queued) ==
    [agentId |-> agent.agentId, error |-> FALSE, marketsAnalyzed |-> analyzed,
     predictions |-> created, positionsQueued |-> queued]

\* the entry lambda_handler appends when process_agent raised
AgentError(agent) ==
    [agentId |-> agent.agentId, error |-> TRUE, marketsAnalyzed |-> 0,
     predictions |-> 0, positionsQueued |-> 0]

\* except Exception in lambda_handler: an error entry for the agent, and
\* the loop goes on with the next agent
agent_failed_silently(o, agent) ==
    [o EXCEPT !.ai = @ + 1]

agent_failed(o, agent) ==
    [o EXCEPT !.results = Append(@, AgentError(agent)),
              !.ai = @ + 1]

\* the end of one iteration of the market loop of process_agent, by
\* continue, by falling through or by the except clause (raised)
market_iteration_aborting(o, market, raised, analyzed, created, queued) ==
    [o EXCEPT !.mi = IF raised THEN Len(o.relevant) + 1 ELSE @ + 1,
              !.visited = @ \cup {<<o.agents[o.ai].agentId, market.id>>},
              !.predictions_created = IF created THEN @ + 1 ELSE @,
              !.positions_queued = IF queued THEN @ + 1 ELSE @]

market_iteration_done(o, market, raised, analyzed, created, queued) ==
    [o EXCEPT !.mi = @ + 1,
              !.visited = @ \cup {<<o.agents[o.ai].agentId, market.id>>},
              !.predictions_created = IF created THEN @ + 1 ELSE @,
              !.positions_queued = IF queued THEN @ + 1 ELSE @]

\* for agent in agents: process_agent up to its market loop.  A strategy
\* document without its dictionaries makes filter_markets_for_strategy
\* raise, which lambda_handler catches and records.
OrchProcessAgent ==
    /\ orch.pc = "agent"
    /\ orch.ai <= Len(orch.agents)
    /\ LET agent == orch.agents[orch.ai]
           strategy == agent.strategy
           relevant_markets ==
               IF strategy.wellFormed
               THEN filter_markets_for_strategy(orch.markets, strategy, now)
               ELSE <<>>
       IN  orch' =
             IF ~strategy.wellFormed
             THEN agent_failed(orch, agent)
             ELSE IF relevant_markets = <<>>
             THEN [orch EXCEPT !.results = Append(@, AgentResult(agent, 0, 0, 0)),
                               !.ai = @ + 1]
             ELSE [orch EXCEPT !.pc = "market",
                               !.relevant = relevant_markets,
                               !.mi = 1,
                               !.predictions_created = 0,
                               !.positions_queued = 0]
    /\ UNCHANGED <<OrchOthers, predictions, queue, nextMessageId,
                   modelCalls, faults>>

\* DynamoDBClient.create_prediction: put_item under the fresh identifier
create_prediction_overwriting(table, prediction) ==
    LET same == {i \in 1..Len(table) :
                   /\ table[i].agentId = prediction.agentId
                   /\ table[i].marketId = prediction.marketId}
    IN  IF same = {} THEN Append(table, prediction)
        ELSE [i \in 1..Len(table) |->
                IF i \in same THEN [prediction EXCEPT !.predictionId = i]
                ELSE table[i]]

create_prediction(table, prediction) ==
    Append(table, prediction)

\* the check of process_agent on the prediction the store returned
is_recent(existing, clock) ==
    /\ existing # NoId
    /\ clock - predictions[existing].createdAt < FreshSeconds

\* One iteration of "for market in relevant_markets" in process_agent.
\* outcome names the dependency call that raises in this iteration, if any:
\*   store_read   db.get_prediction_for_market
\*   model        bedrock.analyze_market (endpoint error)
\*   not_json, missing_field
\*                bedrock.analyze_market (malformed reply of the endpoint)
\*   store_write  db.create_prediction
\*   queue        sqs.send_message
\* Every exception is caught by the try around the iteration.
OrchMarket(outcomes, replies) ==
    /\ orch.pc = "market"
    /\ orch.mi <= Len(orch.relevant)
    /\ \E outcome \in outcomes, reply \in replies :
         LET agent == orch.agents[orch.ai]
             strategy == agent.strategy
             market == orch.relevant[orch.mi]
             existing == get_prediction_for_market(agent.agentId, market.id)
             skipped == outcome # "store_read" /\ is_recent(existing, now)
             analyzed == outcome # "store_read" /\ ~skipped
             prediction == [Prediction_create(Len(predictions) + 1, agent,
                                              market, reply, now)
                            EXCEPT !.cycle = orch.cycle]
             created == /\ analyzed
                        /\ outcome \notin {"model", "store_write"}
                        /\ analyze_market_raises(outcome) = "none"
             wanted == created /\ should_open_position(prediction, strategy)
             queued == wanted /\ outcome # "queue"
             message == [queue_position_message(agent, market, prediction,
                                                strategy, now)
                         EXCEPT !.messageId = nextMessageId]
         IN  /\ outcome # "ok" => faults < MaxFaults
             /\ skipped => outcome = "ok"
             /\ outcome = "queue" => wanted
             /\ faults' = IF outcome = "ok" THEN faults ELSE faults + 1
             /\ modelCalls' = IF analyzed THEN modelCalls + 1 ELSE modelCalls
             /\ predictions' = IF created
                               THEN create_prediction(predictions, prediction)
                               ELSE predictions
             /\ queue' = IF queued THEN Append(queue, message) ELSE queue
             /\ nextMessageId' = IF queued THEN nextMessageId + 1
                                 ELSE nextMessageId
             /\ orch' = [market_iteration_done(orch, market, outcome # "ok",
                                               analyzed, created, queued)
                         EXCEPT !.upstream = IF outcome = "model"
                                             THEN @ + 1 ELSE @,
                                !.parse_errors =
                                    IF outcome \in MalformedShapes
                                    THEN @ \cup {<<agent.agentId, market.id,
                                                   analyze_market_raises(outcome)>>}
                                    ELSE @]
    /\ UNCHANGED OrchOthers

\* process_agent returns its summary; lambda_handler appends it
OrchAgentReturn ==
    /\ orch.pc = "market"
    /\ orch.mi > Len(orch.relevant)
    /\ orch' = [orch EXCEPT
                  !.results = Append(@, AgentResult(orch.agents[orch.ai],
                                                    Len(orch.relevant),
                                                    orch.predictions_created,
                                                    orch.positions_queued)),
                  !.ai = @ + 1,
                  !.pc = "agent"]
    /\ UNCHANGED <<OrchOthers, predictions, queue, nextMessageId,
                   modelCalls, faults>>

\* lambda_handler returns the summary of the run
OrchReturn ==
    /\ orch.pc = "agent"
    /\ orch.ai > Len(orch.agents)
    /\ orch' = [orch EXCEPT !.pc = "done", !.statusCode = 200]
    /\ UNCHANGED <<OrchOthers, predictions, queue, nextMessageId,
                   modelCalls, faults>>

\* the invocation is over; the next scheduled run can start
OrchEnd ==
    /\ orch.pc = "done"
    /\ orch' = [OrchIdle EXCEPT !.cycle = orch.cycle]
    /\ UNCHANGED <<OrchOthers, predictions, queue, nextMessageId,
                   modelCalls, faults>>

OrchOutcomes == {"ok", "store_read", "model", "store_write", "queue"}
FetchOutcomes == {"ok", "api"}

\* the failures of the orchestrator that leave different stores behind
PipelineOutcomes == {"ok", "model", "queue"}

(***************************************************************************)
(* Position executor: lambda_handler over one batch of queue records and   *)
(* process_position_message for each record.                               *)
(***************************************************************************)
ExecOthers == <<agents, predictions, markets, now, modelCalls,
                nextMessageId, orch, res, hook, call, boardVars>>

\* DynamoDBClient.get_agent
has_agent(agent_id) == agent_id \in DOMAIN agents

\* Position.create followed by position.status = OPEN (executor, line 178)
Position_create_pending(newId, message) ==
    [positionId |-> newId,
     agentId |-> message.agentId,
     marketId |-> message.marketId,
     direction |-> message.direction,
     size |-> message.size,
     entryPrice |-> message.entryPrice,
     status |-> "pending",
     exitPrice |-> Absent,
     pnl |-> 0,
     hasPnl |-> FALSE,
     predictionId |-> message.predictionId]

Position_create_open(newId, message) ==
    [Position_create_pending(newId, message) EXCEPT !.status = "open"]

\* the queue hands the handler a batch of its messages
ExecReceive ==
    /\ Quiet
    /\ queue # <<>>
    /\ \E n \in 1..Min(MaxBatch, Len(queue)) :
         exec' = [pc |-> "get_agent", batch |-> SubSeq(queue, 1, n), i |-> 1,
                  batch_item_failures |-> <<>>, raised |-> {},
                  returned |-> {}, stored |-> {}]
    /\ UNCHANGED <<ExecOthers, positions, paperPositions, queue, faults>>

\* an exception leaves process_position_message for this record
raises(e, message_id) == [e EXCEPT !.raised = @ \cup {message_id}]

\* except Exception in lambda_handler: the record is reported as failed
\* and the loop goes on with the next record
record_failed_abort(e, message_id) ==
    [e EXCEPT !.batch_item_failures = Append(@, message_id),
              !.i = Len(e.batch) + 1,
              !.pc = "get_agent"]

record_failed(e, message_id) ==
    [e EXCEPT !.batch_item_failures = Append(@, message_id),
              !.i = @ + 1,
              !.pc = "get_agent"]

\* process_position_message returned without an exception
record_returned(e, message_id) ==
    [e EXCEPT !.returned = @ \cup {message_id},
              !.i = @ + 1,
              !.pc = "get_agent"]

\* agent = db.get_agent(agent_id) and the two early returns
proceeds_any(agent_id) == has_agent(agent_id)

proceeds(agent_id) ==
    /\ has_agent(agent_id)
    /\ agents[agent_id].status = "active"

ExecGetAgent(outcomes) ==
    /\ exec.pc = "get_agent"
    /\ exec.i <= Len(exec.batch)
    /\ \E outcome \in outcomes :
         LET message == exec.batch[exec.i]
         IN  /\ outcome # "ok" => faults < MaxFaults
             /\ faults' = IF outcome = "ok" THEN faults ELSE faults + 1
             /\ exec' = IF outcome # "ok"
                        THEN record_failed(raises(exec, message.messageId),
                                           message.messageId)
                        ELSE IF proceeds(message.agentId)
                        THEN [exec EXCEPT !.pc = "create_paper"]
                        ELSE record_returned(exec, message.messageId)
    /\ UNCHANGED <<ExecOthers, positions, paperPositions, queue>>

\* api.create_paper_position; its exception is logged and raised again
ExecCreatePaper(outcomes) ==
    /\ exec.pc = "create_paper"
    /\ \E outcome \in outcomes :
         LET message == exec.batch[exec.i]
         IN  /\ outcome # "ok" => faults < MaxFaults
             /\ faults' = IF outcome = "ok" THEN faults ELSE faults + 1
             /\ paperPositions' =
                  IF outcome = "ok"
                  THEN Append(paperPositions,
                              [agentId |-> message.agentId,
                               marketId |-> message.marketId,
                               direction |-> message.direction,
                               amount |-> message.size,
                               messageId |-> message.messageId])
                  ELSE paperPositions
             /\ exec' = IF outcome = "ok"
                        THEN [exec EXCEPT !.pc = "store"]
                        ELSE record_failed(raises(exec, message.messageId),
                                           message.messageId)
    /\ UNCHANGED <<ExecOthers, positions, queue>>

\* db.create_position(position); the notification that follows catches
\* its own errors
ExecStore(outcomes) ==
    /\ exec.pc = "store"
    /\ \E outcome \in outcomes :
         LET message == exec.batch[exec.i]
             position == Position_create_open(Len(positions) + 1, message)
         IN  /\ outcome # "ok" => faults < MaxFaults
             /\ faults' = IF outcome = "ok" THEN faults ELSE faults + 1
             /\ positions' = IF outcome = "ok"
                             THEN Append(positions, position)
                             ELSE positions
             /\ exec' = IF outcome = "ok"
                        THEN [record_returned(exec, message.messageId)
                              EXCEPT !.stored = @ \cup {message.messageId}]
                        ELSE record_failed(raises(exec, message.messageId),
                                           message.messageId)
    /\ UNCHANGED <<ExecOthers, paperPositions, queue>>

\* lambda_handler returns batchItemFailures; the queue deletes the records
\* of the batch that are not reported and keeps the reported ones for
\* redelivery
ExecReturn ==
    /\ exec.pc = "get_agent"
    /\ exec.i > Len(exec.batch)
    /\ LET batchIds == {exec.batch[k].messageId : k \in 1..Len(exec.batch)}
           failedIds == {exec.batch_item_failures[k] :
                           k \in 1..Len(exec.batch_item_failures)}
       IN  queue' = SelectSeq(queue, LAMBDA m :
                        m.messageId \notin batchIds \/ m.messageId \in failedIds)
    /\ exec' = [exec EXCEPT !.pc = "done"]
    /\ UNCHANGED <<ExecOthers, positions, paperPositions, faults>>

ExecEnd ==
    /\ exec.pc = "done"
    /\ exec' = ExecIdle
    /\ UNCHANGED <<ExecOthers, positions, paperPositions, queue, faults>>

StoreReadOutcomes == {"ok", "store_read"}
ApiOutcomes == {"ok", "api"}
StoreWriteOutcomes == {"ok", "store_write"}

Executor ==
    \/ ExecReceive
    \/ ExecGetAgent(StoreReadOutcomes)
    \/ ExecCreatePaper(ApiOutcomes)
    \/ ExecStore(StoreWriteOutcomes)
    \/ ExecReturn
    \/ ExecEnd

(***************************************************************************)
(* Market resolver: lambda_handler.                                        *)
(***************************************************************************)
ResOthers == <<markets, paperPositions, queue, nextMessageId, now,
               modelCalls, orch, exec, hook, call, boardVars>>

\* a scan for the positions of the market, whatever their status
scan_positions_any_status(market_id) ==
    SeqOfSet({i \in 1..Len(positions) : positions[i].marketId = market_id})

\* positions_table.scan(marketId = market.id AND status = open): the items
\* are the numbers of the matching records
scan_open_positions(market_id) ==
    SeqOfSet({i \in 1..Len(positions) :
                /\ positions[i].marketId = market_id
                /\ positions[i].status = "open"})

\* predictions_table.scan(marketId = market.id): snapshots of the items
scan_predictions(market_id) ==
    LET order == SeqOfSet({i \in 1..Len(predictions) :
                             predictions[i].marketId = market_id})
    IN  [k \in 1..Len(order) |-> predictions[order[k]]]

\* where the loop over the markets goes after the market at index mi
res_next_market(r) ==
    IF r.mi < Len(r.markets)
    THEN [r EXCEPT !.mi = @ + 1, !.pc = "scan_positions",
                   !.items = <<>>, !.pi = 0, !.preds = <<>>, !.qi = 0]
    ELSE [r EXCEPT !.mi = @ + 1, !.pc = "stats",
                   !.items = <<>>, !.pi = 0, !.preds = <<>>, !.qi = 0,
                   !.stats_order = SeqOfSet(r.agents_updated), !.si = 1]

\* api.get_markets(status=resolved): a failure ends the run with status
\* 500, an empty list with status 200
ResFetchMarkets(outcomes, maxRuns) ==
    /\ Quiet
    /\ res.run < maxRuns
    /\ \E outcome \in outcomes :
         /\ outcome # "ok" => faults < MaxFaults
         /\ faults' = IF outcome = "ok" THEN faults ELSE faults + 1
         /\ LET fetched == get_markets("resolved")
                started == [pc |-> "scan_positions", run |-> res.run + 1,
                            markets |-> fetched, mi |-> 1,
                            items |-> <<>>, pi |-> 0, preds |-> <<>>, qi |-> 0,
                            positions_updated |-> 0,
                            predictions_updated |-> 0,
                            agents_updated |-> {},
                            stats_order |-> <<>>, si |-> 0,
                            statusCode |-> 0,
                            markets_seen |-> {}, positions_tried |-> {},
                            scanned |-> {}, upstream |-> 0]
            IN  res' = IF outcome # "ok"
                       THEN [started EXCEPT !.pc = "done", !.statusCode = 500,
                                            !.markets = <<>>,
                                            !.upstream = 1]
                       ELSE IF fetched = <<>>
                       THEN [started EXCEPT !.pc = "done", !.statusCode = 200]
                       ELSE started
    /\ UNCHANGED <<ResOthers, agents, predictions, positions>>

\* the scan for the open positions of the market; its exception is caught
\* by the try around the market, which then moves to the next market
ResScanPositions(outcomes) ==
    /\ res.pc = "scan_positions"
    /\ \E outcome \in outcomes :
         LET market == res.markets[res.mi]
             seen == [res EXCEPT !.markets_seen = @ \cup {market.id}]
         IN  /\ outcome # "ok" => faults < MaxFaults
             /\ faults' = IF outcome = "ok" THEN faults ELSE faults + 1
             /\ res' = IF outcome # "ok"
                       THEN res_next_market(seen)
                       ELSE [seen EXCEPT
                               !.pc = "positions",
                               !.items = scan_open_positions(market.id),
                               !.scanned = @ \cup {k \in 1..Len(positions) :
                                    /\ positions[k].marketId = market.id
                                    /\ positions[k].status = "open"},
                               !.pi = 1]
    /\ UNCHANGED <<ResOthers, agents, predictions, positions>>

\* resolve_position for one scanned item.  update_position_status may
\* raise (store_write), and so may db.get_agent for the notification after
\* the update was written (store_read); either exception is caught by the
\* try around the item and the item is not counted.
ResPosition(outcomes) ==
    /\ res.pc = "positions"
    /\ res.pi <= Len(res.items)
    /\ \E outcome \in outcomes :
         LET market == res.markets[res.mi]
             id == res.items[res.pi]
             position_item == positions[id]
         IN  /\ outcome # "ok" => faults < MaxFaults
             /\ faults' = IF outcome = "ok" THEN faults ELSE faults + 1
             /\ positions' =
                  IF outcome = "store_write" THEN positions
                  ELSE [positions EXCEPT
                          ![id] = resolve_position(position_item, market)]
             /\ res' = IF outcome = "ok"
                       THEN [res EXCEPT
                               !.pi = @ + 1,
                               !.positions_tried = @ \cup {id},
                               !.positions_updated = @ + 1,
                               !.agents_updated =
                                   @ \cup {position_item.agentId}]
                       ELSE [res EXCEPT !.pi = @ + 1,
                                        !.positions_tried = @ \cup {id}]
    /\ UNCHANGED <<ResOthers, agents, predictions>>

\* the scan for the predictions of the market, after its positions
ResScanPredictions(outcomes) ==
    /\ res.pc = "positions"
    /\ res.pi > Len(res.items)
    /\ \E outcome \in outcomes :
         LET market == res.markets[res.mi]
         IN  /\ outcome # "ok" => faults < MaxFaults
             /\ faults' = IF outcome = "ok" THEN faults ELSE faults + 1
             /\ res' = IF outcome # "ok"
                       THEN res_next_market(res)
                       ELSE [res EXCEPT !.pc = "predictions",
                                        !.preds = scan_predictions(market.id),
                                        !.qi = 1]
    /\ UNCHANGED <<ResOthers, agents, predictions, positions>>

\* an update that marks every prediction correct
update_prediction_outcome_flattering(table, prediction_id, was_correct, actual_outcome) ==
    [table EXCEPT ![prediction_id].wasCorrect = "True",
                  ![prediction_id].actualOutcome = actual_outcome]

\* DynamoDBClient.update_prediction_outcome
update_prediction_outcome(table, prediction_id, was_correct, actual_outcome) ==
    [table EXCEPT ![prediction_id].wasCorrect =
                        IF was_correct THEN "True" ELSE "False",
                  ![prediction_id].actualOutcome = actual_outcome]

\* one scanned prediction: annotated when it carries no wasCorrect yet
ResPrediction(outcomes) ==
    /\ res.pc = "predictions"
    /\ res.qi <= Len(res.preds)
    /\ \E outcome \in outcomes :
         LET market == res.markets[res.mi]
             prediction_item == res.preds[res.qi]
             due == prediction_item.wasCorrect = "None"
             was_correct == prediction_item.recommendedDirection = market.outcome
         IN  /\ outcome # "ok" => (due /\ faults < MaxFaults)
             /\ faults' = IF outcome = "ok" THEN faults ELSE faults + 1
             /\ predictions' =
                  IF due /\ outcome = "ok"
                  THEN update_prediction_outcome(predictions,
                           prediction_item.predictionId, was_correct,
                           market.outcome)
                  ELSE predictions
             /\ res' = [res EXCEPT
                          !.qi = @ + 1,
                          !.predictions_updated =
                              IF due /\ outcome = "ok" THEN @ + 1 ELSE @]
    /\ UNCHANGED <<ResOthers, agents, positions>>

\* the market is done
ResMarketDone ==
    /\ res.pc = "predictions"
    /\ res.qi > Len(res.preds)
    /\ res' = res_next_market(res)
    /\ UNCHANGED <<ResOthers, agents, predictions, positions, faults>>

RECURSIVE SumPnl(_, _)
SumPnl(table, ids) ==
    IF ids = {} THEN 0
    ELSE LET i == CHOOSE j \in ids : TRUE
         IN  table[i].pnl + SumPnl(table, ids \ {i})

\* update_agent_stats of the resolver: the counters recomputed from the
\* closed positions of the agent, or none when it has no closed position
closed_positions(agent_id) ==
    {i \in 1..Len(positions) :
       /\ positions[i].agentId = agent_id
       /\ positions[i].status = "closed"}

\* counters that take every closed position for a winning one
agent_stats_all_winning(agent_id) ==
    LET closed == closed_positions(agent_id)
    IN  [total_trades |-> Cardinality(closed),
         winning_trades |-> Cardinality(closed),
         total_pnl |-> SumPnl(positions, closed)]

agent_stats(agent_id) ==
    LET closed == closed_positions(agent_id)
        with_pnl == {i \in closed : positions[i].hasPnl /\ positions[i].pnl # 0}
    IN  [total_trades |-> Cardinality(closed),
         winning_trades |-> Cardinality({i \in with_pnl : positions[i].pnl > 0}),
         total_pnl |-> SumPnl(positions, with_pnl)]

\* DynamoDBClient.update_agent_stats: SET of the three counters
\* an update that puts the whole item, built from the counters
update_agent_stats_replacing(table, agent_id, stats) ==
    [table EXCEPT ![agent_id] =
        [AgentRecord(agent_id, table[agent_id].strategy) EXCEPT
            !.totalTrades = stats.total_trades,
            !.winningTrades = stats.winning_trades,
            !.totalPnl = stats.total_pnl]]

update_agent_stats(table, agent_id, stats) ==
    [table EXCEPT ![agent_id].totalTrades = stats.total_trades,
                  ![agent_id].winningTrades = stats.winning_trades,
                  ![agent_id].totalPnl = stats.total_pnl]

\* for agent_id in agents_updated: update_agent_stats, errors caught
ResStats(outcomes) ==
    /\ res.pc = "stats"
    /\ res.si <= Len(res.stats_order)
    /\ \E outcome \in outcomes :
         LET agent_id == res.stats_order[res.si]
             write == /\ outcome = "ok"
                      /\ closed_positions(agent_id) # {}
                      /\ has_agent(agent_id)
         IN  /\ outcome # "ok" => faults < MaxFaults
             /\ faults' = IF outcome = "ok" THEN faults ELSE faults + 1
             /\ agents' = IF write
                          THEN update_agent_stats(agents, agent_id,
                                                  agent_stats(agent_id))
                          ELSE agents
             /\ res' = [res EXCEPT !.si = @ + 1]
    /\ UNCHANGED <<ResOthers, predictions, positions>>

ResReturn ==
    /\ res.pc = "stats"
    /\ res.si > Len(res.stats_order)
    /\ res' = [res EXCEPT !.pc = "done", !.statusCode = 200]
    /\ UNCHANGED <<ResOthers, agents, predictions, positions, faults>>

ResEnd ==
    /\ res.pc = "done"
    /\ res' = [ResIdle EXCEPT !.run = res.run]
    /\ UNCHANGED <<ResOthers, agents, predictions, positions, faults>>

StoreOutcomes == {"ok", "store_read", "store_write"}

(***************************************************************************)
(* Bot webhook: lambda_handler for one update.  An update is a record      *)
(*   [body, userId]  with body one of                                      *)
(*     malformed   not JSON: json.loads raises                             *)
(*     empty       neither a message nor a callback query                  *)
(*     /pause, /resume, /help   a message with that command                *)
(* outcome names the call that raises inside the command handler, if any:  *)
(*   store_read  db.get_agents_by_user                                     *)
(*   store_write db.update_agent_status                                    *)
(*   bot         bot.send_message, after the handler's writes              *)
(***************************************************************************)
HookOthers == <<predictions, positions, markets, paperPositions, queue,
                nextMessageId, now, modelCalls, orch, exec, res, call>>

\* the items of the agents table that were written by create_agent; an
\* item that update_item created has none of their attributes
WholeAgents == {a \in DOMAIN agents : "userId" \in DOMAIN agents[a]}

UserIds == {agents[a].userId : a \in WholeAgents}

\* DynamoDBClient.get_agents_by_user, in creation order: a query on the
\* index of the user key, which holds the items that have that key
get_agents_by_user(user_id) ==
    SeqOfSet({a \in WholeAgents : agents[a].userId = user_id})

\* an update that writes the whole record afresh
update_agent_status_resetting(table, agent_id, status) ==
    [table EXCEPT ![agent_id] =
        [AgentRecord(agent_id, BaseStrategy) EXCEPT !.status = status]]

\* DynamoDBClient.update_agent_status: update_item with SET status, which
\* creates the item when the key is not in the table
update_agent_status(table, agent_id, status) ==
    IF agent_id \in DOMAIN table
    THEN [table EXCEPT ![agent_id].status = status]
    ELSE (agent_id :> [status |-> status]) @@ table

\* handle_pause_command / handle_resume_command: the first agent of the
\* user that is in status from is set to status to
status_command(table, user_id, from, to) ==
    LET mine == get_agents_by_user(user_id)
        candidates == SelectSeq(mine, LAMBDA a : agents[a].status = from)
    IN  IF candidates = <<>> THEN table
        ELSE update_agent_status(table, candidates[1], to)

\* the status code lambda_handler answers with: 200 from the body of the
\* try and 200 from its except clause
response_code_failing(raised) == IF raised THEN 500 ELSE 200

response_code(raised) == IF raised THEN 200 ELSE 200

Webhook(bodies, outcomes, maxUpdates) ==
    /\ hook.updates < maxUpdates
    /\ \E body \in bodies, user_id \in UserIds, outcome \in outcomes :
         LET raised == body = "malformed" \/ outcome # "ok"
             writes == /\ body \in {"/pause", "/resume"}
                       /\ outcome \in {"ok", "bot"}
         IN  /\ outcome # "ok" =>
                   /\ faults < MaxFaults
                   /\ body \in {"/pause", "/resume", "/help"}
                   /\ body = "/help" => outcome = "bot"
             /\ body \in {"malformed", "empty"} => user_id = CHOOSE u \in UserIds : TRUE
             /\ faults' = IF outcome = "ok" THEN faults ELSE faults + 1
             /\ agents' =
                  IF ~writes THEN agents
                  ELSE IF body = "/pause"
                  THEN status_command(agents, user_id, "active", "paused")
                  ELSE status_command(agents, user_id, "paused", "active")
             /\ hook' = [pc |-> "idle", updates |-> hook.updates + 1,
                         body |-> body, raised |-> raised,
                         statusCode |-> response_code(raised),
                         reply |-> "none", error |-> "none"]
    /\ UNCHANGED <<HookOthers, boardVars>>

\* handle_pause_command / handle_resume_command in their two store calls:
\* get_agents_by_user first, update_agent_status on the agent picked from
\* what was read later.  hook.read_at and hook.written_at are the positions
\* of the resolver at the two calls.
StatusRead(maxUpdates) ==
    /\ hook.pc = "idle"
    /\ hook.updates < maxUpdates
    /\ \E body \in {"/pause", "/resume"}, user_id \in UserIds :
         LET from == IF body = "/pause" THEN "active" ELSE "paused"
             to == IF body = "/pause" THEN "paused" ELSE "active"
             mine == get_agents_by_user(user_id)
             candidates == SelectSeq(mine, LAMBDA a : agents[a].status = from)
         IN  hook' = IF candidates = <<>>
                     THEN [HookIdle EXCEPT !.updates = hook.updates + 1,
                                           !.body = body,
                                           !.statusCode = response_code(FALSE)]
                     ELSE [pc |-> "write", updates |-> hook.updates,
                           body |-> body, raised |-> FALSE, statusCode |-> 0,
                           reply |-> "none", error |-> "none",
                           agent_id |-> candidates[1], status |-> to,
                           user_id |-> user_id,
                           read_at |-> res.pc, written_at |-> "none",
                           read_trades |-> agents[candidates[1]].totalTrades]
    /\ UNCHANGED <<HookOthers, agents, faults, boardVars>>

StatusWrite ==
    /\ hook.pc = "write"
    /\ agents' = update_agent_status(agents, hook.agent_id, hook.status)
    /\ hook' = [hook EXCEPT !.pc = "idle", !.updates = @ + 1,
                            !.statusCode = response_code(FALSE),
                            !.written_at = res.pc]
    /\ UNCHANGED <<HookOthers, faults, boardVars>>

HookBodies == {"malformed", "empty", "/pause", "/resume", "/help"}
HookOutcomes == {"ok", "store_read", "store_write", "bot"}

(***************************************************************************)
(* The strategy dialogue of the webhook.  A message that is not a command  *)
(* is a strategy description (handle_strategy_input): the model endpoint   *)
(* is asked for a strategy document, which is kept as the chat's pending   *)
(* strategy; any exception of the synthesis is caught and answered with a  *)
(* message.  The callback strategy:confirm creates the agent from the      *)
(* pending strategy, strategy:cancel and strategy:new forget it            *)
(* (handle_strategy_callback).  hook.reply is the shape of the endpoint's   *)
(* reply and hook.error the exception the synthesis call left with.        *)
(***************************************************************************)
\* state.get("pending_strategy") is set: a state is only ever stored with
\* its pending strategy
has_pending_strategy(chat_id) == chat_id \in DOMAIN userState

set_user_state(chat_id, state) == (chat_id :> state) @@ userState

clear_user_state(chat_id) ==
    [c \in DOMAIN userState \ {chat_id} |-> userState[c]]

\* a strategy document whose numbers are all whole: 1 TON base size, no
\* minimum edge, 1 TON maximum, a condition on the confidence tier
WholeStrategy ==
    [YesStrategy EXCEPT !.baseSize = 1000000,
                        !.minEdge = 0,
                        !.maxPositionSize = 1000000,
                        !.entryConditions =
                            <<[field |-> "confidence", operator |-> "gte",
                               value |-> "high", isStr |-> TRUE]>>]

\* the strategy documents the endpoint synthesizes: json.loads gives a
\* float for every number written with a fraction (the schema of the
\* prompt shows baseSize 0.05, minEdge 0.05, maxPositionSize 0.20)
SynthesizedStrategies == {YesStrategy, WholeStrategy}

\* SynthesizedStrategy.to_dict holds a Python float: a base size, minimum
\* edge or maximum that is not a whole number, the default maximum 0.20
\* that from_dict fills in, or a fractional condition value (edges are
\* fractions; sizes are in millionths here and edges in hundredths)
has_float(strategy_config) ==
    \/ strategy_config.baseSize # Absent
          /\ strategy_config.baseSize % 1000000 # 0
    \/ strategy_config.minEdge # Absent
          /\ strategy_config.minEdge % 100 # 0
    \/ strategy_config.maxPositionSize = Absent
    \/ strategy_config.maxPositionSize % 1000000 # 0
    \/ \E k \in 1..Len(strategy_config.entryConditions) :
          LET c == strategy_config.entryConditions[k]
          IN  c.field = "edge" /\ ~c.isStr /\ c.value % 100 # 0

handle_strategy_input(shapes, documents, maxUpdates) ==
    /\ hook.updates < maxUpdates
    /\ \E chat_id \in UserIds, shape \in shapes, strategy \in documents :
         LET error == synthesize_strategy_raises(shape)
         IN  /\ userState' =
                  IF error = "none"
                  THEN set_user_state(chat_id, [pending_strategy |-> strategy])
                  ELSE userState
             /\ hook' = [pc |-> "idle", updates |-> hook.updates + 1,
                         body |-> "strategy", raised |-> FALSE,
                         statusCode |-> response_code(FALSE),
                         reply |-> shape, error |-> error]
    /\ UNCHANGED <<HookOthers, agents, faults, leaderboard, lb>>

\* Agent.create with the status set to ACTIVE by handle_strategy_callback;
\* the identifier is fresh (uuid4), the model numbers the agents
Agent_create(newId, user_id, telegram_chat_id, strategy_config) ==
    [AgentRecord(newId, strategy_config)
       EXCEPT !.userId = user_id, !.telegramChatId = telegram_chat_id]

\* DynamoDBClient.create_agent: put_item
create_agent(table, agent) == (agent.agentId :> agent) @@ table

\* a put_item that takes any number
create_agent_raises_never(agent) == "none"

\* put_item of Agent.to_dynamo_item, whose strategyConfig is the document
\* as it is: the table resource's serializer takes int and Decimal and
\* raises TypeError ("Float types are not supported") on a float
create_agent_raises(agent) ==
    IF has_float(agent.strategy) THEN "TypeError" ELSE "none"

\* outcome store_write: db.create_agent raises, before the state is cleared;
\* so does a document put_item rejects.  handle_strategy_callback has no
\* try: the exception ends the handling of the update.
handle_strategy_callback(actions, outcomes, maxUpdates) ==
    /\ hook.updates < maxUpdates
    /\ \E chat_id \in UserIds, action \in actions, outcome \in outcomes :
         LET creates == action = "confirm" /\ has_pending_strategy(chat_id)
             raised == \/ outcome # "ok"
                       \/ creates /\ create_agent_raises(
                                         Agent_create(NoId, chat_id, chat_id,
                                             userState[chat_id].pending_strategy))
                                         # "none"
             agent == Agent_create(Cardinality(DOMAIN agents) + 1,
                                   chat_id, chat_id,
                                   userState[chat_id].pending_strategy)
         IN  /\ outcome # "ok" => faults < MaxFaults /\ creates
             /\ faults' = IF outcome = "ok" THEN faults ELSE faults + 1
             /\ agents' = IF creates /\ ~raised
                          THEN create_agent(agents, agent) ELSE agents
             /\ userState' =
                  IF (creates /\ ~raised) \/ action \in {"cancel", "new"}
                  THEN clear_user_state(chat_id) ELSE userState
             /\ hook' = [pc |-> "idle", updates |-> hook.updates + 1,
                         body |-> action, raised |-> raised,
                         statusCode |-> response_code(raised),
                         reply |-> "none", error |-> "none",
                         chat_id |-> chat_id]
    /\ UNCHANGED <<HookOthers, leaderboard, lb>>

\* handle_agent_callback, actions pause and resume: the status of the agent
\* named in the callback data is set, whoever presses the button.
\* callback.from_user.id is the pressing user and the third part of
\* callback.data the agent identifier; neither is compared with the table.
handle_agent_callback(actions, user_ids, agent_ids, maxUpdates) ==
    /\ hook.updates < maxUpdates
    /\ \E user_id \in user_ids, agent_id \in agent_ids, action \in actions :
         /\ agents' = update_agent_status(agents, agent_id,
                          IF action = "pause" THEN "paused" ELSE "active")
         /\ hook' = [pc |-> "idle", updates |-> hook.updates + 1,
                     body |-> action, raised |-> FALSE,
                     statusCode |-> response_code(FALSE),
                     reply |-> "none", error |-> "none",
                     user_id |-> user_id, agent_id |-> agent_id]
    /\ UNCHANGED <<HookOthers, faults, boardVars>>

(***************************************************************************)
(* Leaderboard updater: lambda_handler.                                    *)
(*                                                                         *)
(* The handler scans the agents table for the agents with totalTrades > 0  *)
(* and returns at once when there is none.  Otherwise it computes, for     *)
(* each scanned item in turn, the win rate, the prediction accuracy and    *)
(* the composite score, sorts the scores and writes one entry per agent    *)
(* and period.  lb.items is what the scan returned, lb.raised the          *)
(* exception the invocation ended with.                                    *)
(*                                                                         *)
(* The numbers of a scanned item are what the table resource gives for a   *)
(* number attribute, decimal.Decimal (the same reason for which the store  *)
(* layer converts with float(item[...]) and Decimal(str(...))), and the    *)
(* handler uses them as they come: win_rate = winning_trades /             *)
(* total_trades is a Decimal, and Python defines no product of a Decimal   *)
(* and a float, so win_rate * 0.4 raises TypeError.  The handler has no    *)
(* try: the invocation ends there, before any score is kept and before     *)
(* the first write.                                                        *)
(***************************************************************************)
Periods == {"all_time", "weekly", "daily"}

LbOthers == <<agents, predictions, positions, markets, paperPositions, queue,
              nextMessageId, now, modelCalls, orch, exec, res, hook, call,
              faults, userState>>

\* table.scan(FilterExpression = entityType = Agent AND totalTrades > 0)
agents_to_rank ==
    LET order == SeqOfSet({a \in DOMAIN agents : agents[a].totalTrades > 0})
    IN  [i \in 1..Len(order) |-> agents[order[i]]]

\* the Python type of a number read from a scanned item
item_number_type == "Decimal"

\* the type of win_rate: the quotient of the item's two counters, or the
\* literal 0
win_rate_type(total_trades) ==
    IF total_trades > 0 THEN item_number_type ELSE "int"

\* a * b of Python is not defined between decimal.Decimal and float
product_raises(left, right) == {left, right} = {"Decimal", "float"}

\* the exception the computation of one item's score ends with
score_raises(item) ==
    IF product_raises(win_rate_type(item.totalTrades), "float")
    THEN "TypeError" ELSE "none"

\* round(score, 6) on the exact value num / den of the score in millionths
round_half_even(num, den) ==
    LET q == num \div den
        r == num % den
    IN  IF 2 * r > den \/ (2 * r = den /\ q % 2 = 1) THEN q + 1 ELSE q

\* win * 0.4 + clamp(pnl) * 0.3 + trades * 0.2 + accuracy * 0.1 in
\* millionths, with win = win_numer / t, clamp(pnl) * 0.3 = pnl_numer / 1000
\* millionths, accuracy = acc_numer / k: the whole parts are added and the
\* three remainders are rounded together
weighted_sum(win_numer, t, pnl_numer, trades_term, acc_numer, k) ==
    (win_numer \div t) + (pnl_numer \div 1000) + trades_term
        + (acc_numer \div k)
        + round_half_even((win_numer % t) * 1000 * k
                              + (pnl_numer % 1000) * t * k
                              + (acc_numer % k) * 1000 * t,
                          1000 * t * k)

\* the score with the losing trades in the place of the winning ones
composite_score_of_losses(total_trades, winning_trades, total_pnl, correct_predictions, total_with_outcome) ==
    weighted_sum(IF total_trades > 0
                 THEN 400000 * (total_trades - winning_trades) ELSE 0,
                 Max(total_trades, 1),
                 3 * Max(Min(total_pnl, 100000000), -100000000),
                 2000 * Min(total_trades, 100),
                 IF total_with_outcome > 0
                 THEN 100000 * correct_predictions ELSE 0,
                 Max(total_with_outcome, 1))

\* The composite score of lambda_handler on plain numbers, rounded to six
\* decimals, in millionths; total_pnl is in millionths of a TON.
\*   win_rate = winning_trades / total_trades if total_trades > 0 else 0
\*   prediction_accuracy = correct / total_with_outcome if > 0 else 0
\*   normalized_pnl = total_pnl / 100, clamped to [-1, 1]
\*   normalized_trades = min(total_trades / 100, 1.0)
composite_score(total_trades, winning_trades, total_pnl, correct_predictions, total_with_outcome) ==
    weighted_sum(IF total_trades > 0 THEN 400000 * winning_trades ELSE 0,
                 Max(total_trades, 1),
                 3 * Max(Min(total_pnl, 100000000), -100000000),
                 2000 * Min(total_trades, 100),
                 IF total_with_outcome > 0
                 THEN 100000 * correct_predictions ELSE 0,
                 Max(total_with_outcome, 1))

\* the scan and the early return when nothing is to be ranked
LbScan(maxRuns) ==
    /\ Quiet
    /\ lb.run < maxRuns
    /\ LET agent_items == agents_to_rank
       IN  lb' = [pc |-> IF agent_items = <<>> THEN "done" ELSE "score",
                  run |-> lb.run + 1,
                  items |-> agent_items,
                  raised |-> "none",
                  statusCode |-> IF agent_items = <<>> THEN 200 ELSE 0]
    /\ UNCHANGED <<LbOthers, leaderboard>>

\* for item in agent_items: the score of the first item
LbScore ==
    /\ lb.pc = "score"
    /\ score_raises(lb.items[1]) # "none"
    /\ lb' = [lb EXCEPT !.pc = "done", !.raised = score_raises(lb.items[1])]
    /\ UNCHANGED <<LbOthers, leaderboard>>

\* the invocation is over; the next scheduled run can start
LbEnd ==
    /\ lb.pc = "done"
    /\ lb' = [lb EXCEPT !.pc = "idle"]
    /\ UNCHANGED <<LbOthers, leaderboard>>

(***************************************************************************)
(* The whole pipeline with every dependency answering: orchestration, the  *)
(* executor draining the queue, markets resolving either way, the          *)
(* resolver, in any order.                                                 *)
(***************************************************************************)
Next ==
    \/ MarketResolves({"YES", "NO"})
    \/ OrchFetchAgents(MaxCycles)
    \/ OrchFetchMarkets({"ok"})
    \/ OrchProcessAgent
    \/ OrchMarket({"ok"}, ModelReplies)
    \/ OrchAgentReturn
    \/ OrchReturn
    \/ OrchEnd
    \/ ExecReceive
    \/ ExecGetAgent({"ok"})
    \/ ExecCreatePaper({"ok"})
    \/ ExecStore({"ok"})
    \/ ExecReturn
    \/ ExecEnd
    \/ ResFetchMarkets({"ok"}, MaxCycles)
    \/ ResScanPositions({"ok"})
    \/ ResPosition({"ok"})
    \/ ResScanPredictions({"ok"})
    \/ ResPrediction({"ok"})
    \/ ResMarketDone
    \/ ResStats({"ok"})
    \/ ResReturn
    \/ ResEnd

Spec == Init /\ [][Next]_vars

(***************************************************************************)
(* The pipeline with failing dependencies: the dependency calls of the     *)
(* orchestrator and of the resolver may fail, MaxFaults times in all.  The *)
(* queue triggers its consumer at once, so a market resolves and the       *)
(* resolver starts with the queue drained; the executor in between runs    *)
(* without failure and markets resolve to YES.  The store failures of the  *)
(* orchestrator are part of SpecOrch.                                      *)
(***************************************************************************)
NextFault ==
    \/ queue = <<>> /\ MarketResolves({"YES"})
    \/ OrchFetchAgents(MaxCycles)
    \/ OrchFetchMarkets(FetchOutcomes)
    \/ OrchProcessAgent
    \/ OrchMarket(PipelineOutcomes, ModelReplies)
    \/ OrchAgentReturn
    \/ OrchReturn
    \/ OrchEnd
    \/ ExecReceive
    \/ ExecGetAgent({"ok"})
    \/ ExecCreatePaper({"ok"})
    \/ ExecStore({"ok"})
    \/ ExecReturn
    \/ ExecEnd
    \/ queue = <<>> /\ ResFetchMarkets(FetchOutcomes, MaxCycles)
    \/ ResScanPositions(StoreReadOutcomes)
    \/ ResPosition(StoreOutcomes)
    \/ ResScanPredictions(StoreReadOutcomes)
    \/ ResPrediction(StoreWriteOutcomes)
    \/ ResMarketDone
    \/ ResStats(StoreOutcomes)
    \/ ResReturn
    \/ ResEnd

SpecFault == Init /\ [][NextFault]_vars

(***************************************************************************)
(* Repeated orchestration cycles as the clock advances; every dependency   *)
(* call of the orchestrator may fail, MaxFaults times in all.              *)
(***************************************************************************)
NextOrch ==
    \/ Tick
    \/ OrchFetchAgents(FreshCycles)
    \/ OrchFetchMarkets(FetchOutcomes)
    \/ OrchProcessAgent
    \/ OrchMarket(OrchOutcomes, ModelReplies)
    \/ OrchAgentReturn
    \/ OrchReturn
    \/ OrchEnd

SpecOrch == Init /\ [][NextOrch]_vars

(***************************************************************************)
(* The executor with failing dependencies: the orchestrator fills the      *)
(* queue and the executor consumes it in batches; every dependency call    *)
(* of the executor may fail, MaxFaults times in all.  The queue may also   *)
(* hold a request whose agent has no record in the store.                  *)
(***************************************************************************)
OrphanRequest ==
    [agentId |-> NumAgents + 1, marketId |-> 1, direction |-> "YES",
     size |-> DefaultBaseSize, predictionId |-> NoId, entryPrice |-> 40,
     telegramChatId |-> NumAgents + 1, timestamp |-> 0, messageId |-> 1]

InitExec ==
    /\ InitCommon
    /\ positions = <<>>
    /\ call = NoCall
    /\ \E orphan \in BOOLEAN :
         /\ queue = IF orphan THEN <<OrphanRequest>> ELSE <<>>
         /\ nextMessageId = IF orphan THEN 2 ELSE 1
    /\ agents = [a \in AgentIds |->
                   AgentRecord(a, IF a = 1 THEN BaseStrategy ELSE YesStrategy)]
    /\ markets = [m \in MarketIds |-> MarketRecord(m)]

NextExec ==
    \/ OrchFetchAgents(MaxCycles)
    \/ OrchFetchMarkets({"ok"})
    \/ OrchProcessAgent
    \/ OrchMarket({"ok"}, ModelReplies)
    \/ OrchAgentReturn
    \/ OrchReturn
    \/ OrchEnd
    \/ Executor

SpecExec == InitExec /\ [][NextExec]_vars

(***************************************************************************)
(* The executor and the webhook: the orchestrator fills the queue and the  *)
(* executor consumes it while users pause and resume their agents, at any  *)
(* moment, between two records of a batch included.                        *)
(***************************************************************************)
NextPause ==
    \/ OrchFetchAgents(MaxCycles)
    \/ OrchFetchMarkets({"ok"})
    \/ OrchProcessAgent
    \/ OrchMarket({"ok"}, ModelReplies)
    \/ OrchAgentReturn
    \/ OrchReturn
    \/ OrchEnd
    \/ ExecReceive
    \/ ExecGetAgent({"ok"})
    \/ ExecCreatePaper({"ok"})
    \/ ExecStore({"ok"})
    \/ ExecReturn
    \/ ExecEnd
    \/ Webhook({"/pause", "/resume"}, {"ok"}, MaxUpdates)

SpecPause == InitExec /\ [][NextPause]_vars

(***************************************************************************)
(* The webhook on its own: any update, any failure inside its handling,    *)
(* while the clock advances.                                               *)
(***************************************************************************)
NextHook ==
    \/ Tick
    \/ Webhook(HookBodies, HookOutcomes, MaxUpdates)

SpecHook == Init /\ [][NextHook]_vars

(***************************************************************************)
(* Malformed replies of the model endpoint: the orchestrator analyses the  *)
(* markets and users describe and confirm strategies while the endpoint    *)
(* may answer with text that is not JSON or with JSON that lacks a         *)
(* required field (MaxFaults times in all to the orchestrator).            *)
(***************************************************************************)
NextParse ==
    \/ OrchFetchAgents(MaxCycles)
    \/ OrchFetchMarkets({"ok"})
    \/ OrchProcessAgent
    \/ OrchMarket({"ok"} \cup MalformedShapes, ModelReplies)
    \/ OrchAgentReturn
    \/ OrchReturn
    \/ OrchEnd
    \/ handle_strategy_input(ReplyShapes, {WholeStrategy}, MaxUpdates)
    \/ handle_strategy_callback({"confirm", "cancel"}, {"ok"}, MaxUpdates)

SpecParse == Init /\ [][NextParse]_vars

(***************************************************************************)
(* The get_prediction_for_market query at scale: one agent whose strategy  *)
(* selects every market, more markets than the query's Limit, and          *)
(* orchestration cycles following each other with no failure.              *)
(***************************************************************************)
InitLimit ==
    /\ InitCommon
    /\ positions = <<>>
    /\ call = NoCall
    /\ queue = <<>>
    /\ nextMessageId = 1
    /\ agents = [a \in {1} |-> AgentRecord(a, BaseStrategy)]
    /\ markets = [m \in 1..ManyMarkets |-> MarketRecord(m)]

NextLimit ==
    \/ OrchFetchAgents(FreshCycles)
    \/ OrchFetchMarkets({"ok"})
    \/ OrchProcessAgent
    \/ OrchMarket({"ok"}, ModelReplies)
    \/ OrchAgentReturn
    \/ OrchReturn
    \/ OrchEnd

SpecLimit == InitLimit /\ [][NextLimit]_vars

(***************************************************************************)
(* The arithmetic on its own: calculate_position_size, queue_position and  *)
(* resolve_position applied to inputs drawn from the sets below.           *)
(***************************************************************************)
SizingStrategies ==
    {[BaseStrategy EXCEPT !.scalingRule = r, !.baseSize = b,
                          !.maxPositionSize = mx, !.positionDirection = d] :
        r \in ScalingRules, b \in {Absent, 150000, 400000},
        mx \in {Absent, 100000}, d \in {"YES", "dynamic"}}

SizingReplies ==
    {[predictedProbability |-> p, confidence |-> c,
      recommendedDirection |-> d] :
        p \in {0, 50, 55, 75, 100}, c \in Confidences, d \in {"NO", "dynamic"}}

ResolveItems ==
    {[Position_create_open(1, [agentId |-> 1, marketId |-> 1,
                               direction |-> d, size |-> sz,
                               entryPrice |-> ep, predictionId |-> NoId])
      EXCEPT !.status = "open"] :
        d \in Directions, sz \in {0, 50000, 200000}, ep \in {0, 35, 60, 100}}

InitCalc ==
    /\ InitCommon
    /\ queue = <<>>
    /\ nextMessageId = 1
    /\ \/ \E strategy \in SizingStrategies, reply \in SizingReplies,
             m \in 1..2 :
            /\ agents = [a \in {1} |-> AgentRecord(a, strategy)]
            /\ markets = [k \in {m} |-> MarketRecord(m)]
            /\ positions = <<>>
            /\ call = [fn |-> "calculate_position_size", done |-> FALSE,
                       prediction |-> Prediction_create(1, AgentRecord(1, strategy),
                                          MarketRecord(m), reply, 0),
                       result |-> 0]
       \/ \E item \in ResolveItems, outcome \in {"YES", "NO", "None"} :
            /\ agents = [a \in {1} |-> AgentRecord(a, BaseStrategy)]
            /\ markets = [k \in {1} |->
                            [MarketRecord(1) EXCEPT !.status = "resolved",
                                                    !.outcome = outcome]]
            /\ positions = <<item>>
            /\ call = [fn |-> "resolve_position", done |-> FALSE,
                       prediction |-> Prediction_create(1, AgentRecord(1, BaseStrategy),
                                          MarketRecord(1),
                                          CHOOSE r \in SizingReplies : TRUE, 0),
                       result |-> 0]

CalcOthers == <<predictions, paperPositions, nextMessageId, now,
                modelCalls, orch, exec, res, hook, faults, agents, markets,
                boardVars>>

\* size = calculate_position_size(prediction, strategy, agent)
CalcPositionSize ==
    /\ call.fn = "calculate_position_size"
    /\ ~call.done
    /\ queue = <<>>
    /\ call' = [call EXCEPT !.done = TRUE,
                            !.result = calculate_position_size(
                                           call.prediction, agents[1].strategy)]
    /\ UNCHANGED <<CalcOthers, positions, queue>>

\* queue_position(agent, market, prediction, strategy)
CalcQueuePosition ==
    /\ call.fn = "calculate_position_size"
    /\ queue = <<>>
    /\ LET market == markets[call.prediction.marketId]
       IN  queue' = Append(queue,
                        queue_position_message(agents[1], market,
                            call.prediction, agents[1].strategy, now))
    /\ UNCHANGED <<CalcOthers, positions, call>>

\* resolve_position(position_item, market)
CalcResolvePosition ==
    /\ call.fn = "resolve_position"
    /\ ~call.done
    /\ positions' = [positions EXCEPT
                       ![1] = resolve_position(positions[1], markets[1])]
    /\ call' = [call EXCEPT !.done = TRUE]
    /\ UNCHANGED <<CalcOthers, queue>>

NextCalc ==
    \/ CalcPositionSize
    \/ CalcQueuePosition
    \/ CalcResolvePosition

SpecCalc == InitCalc /\ [][NextCalc]_vars

(***************************************************************************)
(* Orchestration cycles among status commands: up to FreshCycles cycles,   *)
(* /pause and /resume at any moment, the last agent possibly stopped from  *)
(* the start.                                                              *)
(***************************************************************************)
InitCycle ==
    /\ InitCommon
    /\ positions = <<>>
    /\ call = NoCall
    /\ queue = <<>>
    /\ nextMessageId = 1
    /\ \E status \in {"active", "stopped"} :
         agents = [a \in AgentIds |->
                     [AgentRecord(a, IF a = 1 THEN BaseStrategy ELSE YesStrategy)
                      EXCEPT !.status = IF a = NumAgents THEN status ELSE "active"]]
    /\ markets = [m \in MarketIds |-> MarketRecord(m)]

NextCycle ==
    \/ OrchFetchAgents(FreshCycles)
    \/ OrchFetchMarkets({"ok"})
    \/ OrchProcessAgent
    \/ OrchMarket({"ok"}, ModelReplies)
    \/ OrchAgentReturn
    \/ OrchReturn
    \/ OrchEnd
    \/ Webhook({"/pause", "/resume"}, {"ok"}, MaxUpdates)

SpecCycle == InitCycle /\ [][NextCycle]_vars

(***************************************************************************)
(* The strategy dialogue on its own: users describe strategies, the        *)
(* endpoint answers with either document, and the users press confirm,     *)
(* cancel and new in any order.                                            *)
(***************************************************************************)
NextDialogue ==
    \/ handle_strategy_input({"well_formed"}, SynthesizedStrategies, MaxUpdates + 2)
    \/ handle_strategy_callback({"confirm", "cancel", "new"}, {"ok"},
                                MaxUpdates + 2)

SpecDialogue == Init /\ [][NextDialogue]_vars

(***************************************************************************)
(* filter_markets_for_strategy on its own: three markets, given out of     *)
(* identifier order, with resolution times on both sides of every bucket   *)
(* limit, filtered for strategies that differ in their market selection.   *)
(***************************************************************************)
FilterHorizons ==
    {{}, {"same_day"}, {"next_day"}, {"weekly"}, {"same_day", "weekly"},
     {"next_day", "monthly"}, {"monthly"}}

FilterStrategies ==
    {[BaseStrategy EXCEPT !.types = ty, !.locations = lo, !.timeHorizon = th] :
        ty \in {{}, {"temperature_high"}, {"precipitation", "wind_speed"}},
        lo \in {{}, {"MIA"}},
        th \in FilterHorizons}

FilterTimes ==
    {-3600, 24 * 3600, 24 * 3600 + 1, 48 * 3600, 48 * 3600 + 1,
     168 * 3600, 168 * 3600 + 1}

InitFilter ==
    /\ InitCommon
    /\ queue = <<>>
    /\ nextMessageId = 1
    /\ positions = <<>>
    /\ \E strategy \in FilterStrategies, t1, t2, t3 \in FilterTimes :
         /\ agents = [a \in {1} |-> AgentRecord(a, strategy)]
         /\ markets = [k \in 1..3 |->
                         [MarketRecord(k) EXCEPT
                            !.resolutionTime = <<t1, t2, t3>>[k]]]
         /\ call = [fn |-> "filter_markets_for_strategy", done |-> FALSE,
                    markets |-> <<markets[2], markets[3], markets[1]>>,
                    result |-> <<>>]

\* relevant_markets = filter_markets_for_strategy(markets, strategy)
CalcFilterMarkets ==
    /\ call.fn = "filter_markets_for_strategy"
    /\ ~call.done
    /\ call' = [call EXCEPT !.done = TRUE,
                            !.result = filter_markets_for_strategy(
                                           call.markets, agents[1].strategy,
                                           now)]
    /\ UNCHANGED <<CalcOthers, positions, queue>>

NextFilter == CalcFilterMarkets

SpecFilter == InitFilter /\ [][NextFilter]_vars

(***************************************************************************)
(* Repeated resolver runs: orchestration, execution and up to MaxRuns      *)
(* resolver runs with every dependency answering, markets resolving either *)
(* way at any moment.  The failures of the resolver's store calls are part *)
(* of SpecFault.                                                           *)
(***************************************************************************)
\* a reply of the model endpoint that is far from both markets' prices
ResolveReplies ==
    {[predictedProbability |-> 20, confidence |-> "high",
      recommendedDirection |-> "NO"]}

NextResolve ==
    \/ MarketResolves({"YES", "NO"})
    \/ OrchFetchAgents(MaxCycles)
    \/ OrchFetchMarkets({"ok"})
    \/ OrchProcessAgent
    \/ OrchMarket({"ok"}, ResolveReplies)
    \/ OrchAgentReturn
    \/ OrchReturn
    \/ OrchEnd
    \/ ExecReceive
    \/ ExecGetAgent({"ok"})
    \/ ExecCreatePaper({"ok"})
    \/ ExecStore({"ok"})
    \/ ExecReturn
    \/ ExecEnd
    \/ ResFetchMarkets({"ok"}, MaxRuns)
    \/ ResScanPositions({"ok"})
    \/ ResPosition({"ok"})
    \/ ResScanPredictions({"ok"})
    \/ ResPrediction({"ok"})
    \/ ResMarketDone
    \/ ResStats({"ok"})
    \/ ResReturn
    \/ ResEnd

SpecResolve == Init /\ [][NextResolve]_vars

(***************************************************************************)
(* The resolver run again: as above, but from the start of the run before  *)
(* the last one no market resolves and the executor receives no batch, so  *)
(* that the last of the MaxRuns runs goes over the set of resolved markets *)
(* and the position records that the run before it went over.  The         *)
(* orchestrator keeps running.                                             *)
(***************************************************************************)
NextRerun ==
    \/ res.run < MaxRuns - 1 /\ MarketResolves({"YES", "NO"})
    \/ OrchFetchAgents(MaxCycles)
    \/ OrchFetchMarkets({"ok"})
    \/ OrchProcessAgent
    \/ OrchMarket({"ok"}, ResolveReplies)
    \/ OrchAgentReturn
    \/ OrchReturn
    \/ OrchEnd
    \/ res.run < MaxRuns - 1 /\ ExecReceive
    \/ ExecGetAgent({"ok"})
    \/ ExecCreatePaper({"ok"})
    \/ ExecStore({"ok"})
    \/ ExecReturn
    \/ ExecEnd
    \/ ResFetchMarkets({"ok"}, MaxRuns)
    \/ ResScanPositions({"ok"})
    \/ ResPosition({"ok"})
    \/ ResScanPredictions({"ok"})
    \/ ResPrediction({"ok"})
    \/ ResMarketDone
    \/ ResStats({"ok"})
    \/ ResReturn
    \/ ResEnd

SpecRerun == Init /\ [][NextRerun]_vars

(***************************************************************************)
(* The entry thresholds: orchestrator runs in which every agent carries    *)
(* the same risk controls and entry conditions, drawn from strategies that *)
(* differ in minConfidence, minEdge and entryConditions; the first agent   *)
(* selects the temperature markets (price 40), the others the              *)
(* precipitation markets (price 72), and the model endpoint's replies      *)
(* differ in confidence tier and in distance from the market price.        *)
(***************************************************************************)
Condition(field, operator, value, isStr) ==
    [field |-> field, operator |-> operator, value |-> value, isStr |-> isStr]

EntryBase == [BaseStrategy EXCEPT !.types = {"temperature_high"}]

EntryStrategies ==
    {EntryBase,
     [EntryBase EXCEPT !.minConfidence = "high", !.minEdge = 10],
     [EntryBase EXCEPT !.minConfidence = "low"],
     [EntryBase EXCEPT !.minConfidence = "certain"],
     [EntryBase EXCEPT !.entryConditions =
                           <<Condition("temperature_delta", "gt", 1000, FALSE)>>],
     [EntryBase EXCEPT !.entryConditions =
                           <<Condition("edge", "between", 50, FALSE)>>],
     [EntryBase EXCEPT !.entryConditions =
                           <<Condition("confidence", "gte", "high", TRUE),
                             Condition("forecast_probability", "lt", 50, FALSE)>>],
     [EntryBase EXCEPT !.entryConditions =
                           <<Condition("confidence", "eq", 1, FALSE),
                             Condition("market_probability", "lte", 40, FALSE)>>],
     [EntryBase EXCEPT !.entryConditions =
                           <<Condition("edge", "gt", 10, FALSE)>>]}

EntryReplies ==
    {[predictedProbability |-> 44, confidence |-> "high",
      recommendedDirection |-> "YES"],
     [predictedProbability |-> 45, confidence |-> "low",
      recommendedDirection |-> "YES"],
     [predictedProbability |-> 52, confidence |-> "medium",
      recommendedDirection |-> "YES"],
     [predictedProbability |-> 30, confidence |-> "very_high",
      recommendedDirection |-> "NO"]}

InitEntry ==
    /\ InitCommon
    /\ positions = <<>>
    /\ call = NoCall
    /\ queue = <<>>
    /\ nextMessageId = 1
    /\ \E s \in EntryStrategies :
         agents = [a \in AgentIds |->
                     AgentRecord(a, IF a = 1 THEN s
                                    ELSE [s EXCEPT !.types = {"precipitation"}])]
    /\ markets = [m \in MarketIds |-> MarketRecord(m)]

NextEntry ==
    \/ OrchFetchAgents(MaxCycles)
    \/ OrchFetchMarkets({"ok"})
    \/ OrchProcessAgent
    \/ OrchMarket({"ok"}, EntryReplies)
    \/ OrchAgentReturn
    \/ OrchReturn
    \/ OrchEnd

SpecEntry == InitEntry /\ [][NextEntry]_vars

(***************************************************************************)
(* The composite score on its own: composite_score applied to two agents'  *)
(* numbers that differ in the trade counters only.  PnL is in millionths   *)
(* of a TON and goes past both ends of the clamp.                          *)
(***************************************************************************)
ScoreTrades ==
    {<<1, 0>>, <<1, 1>>, <<2, 1>>, <<3, 1>>, <<3, 2>>, <<4, 2>>, <<4, 3>>,
     <<7, 3>>, <<100, 50>>, <<100, 99>>, <<150, 75>>, <<200, 100>>,
     <<200, 150>>}
ScorePnls == {-200000000, -100000000, -333, 0, 12345, 50000000, 200000000}
ScoreOutcomes == {<<0, 0>>, <<0, 3>>, <<1, 3>>, <<2, 3>>, <<7, 7>>}

InitScore ==
    /\ InitCommon
    /\ queue = <<>>
    /\ nextMessageId = 1
    /\ positions = <<>>
    /\ agents = [a \in {1} |-> AgentRecord(a, BaseStrategy)]
    /\ markets = [k \in {1} |-> MarketRecord(1)]
    /\ \E left \in ScoreTrades, right \in ScoreTrades, pnl \in ScorePnls,
          outcomes \in ScoreOutcomes :
         call = [fn |-> "composite_score", done |-> FALSE,
                 left |-> [total_trades |-> left[1],
                           winning_trades |-> left[2]],
                 right |-> [total_trades |-> right[1],
                            winning_trades |-> right[2]],
                 total_pnl |-> pnl,
                 correct_predictions |-> outcomes[1],
                 total_with_outcome |-> outcomes[2],
                 scores |-> <<0, 0>>]

CalcCompositeScore ==
    /\ call.fn = "composite_score"
    /\ ~call.done
    /\ call' = [call EXCEPT
                  !.done = TRUE,
                  !.scores =
                      <<composite_score(call.left.total_trades,
                                        call.left.winning_trades,
                                        call.total_pnl,
                                        call.correct_predictions,
                                        call.total_with_outcome),
                        composite_score(call.right.total_trades,
                                        call.right.winning_trades,
                                        call.total_pnl,
                                        call.correct_predictions,
                                        call.total_with_outcome)>>]
    /\ UNCHANGED <<CalcOthers, positions, queue>>

NextScore == CalcCompositeScore

SpecScore == InitScore /\ [][NextScore]_vars

(***************************************************************************)
(* The leaderboard updater after the pipeline: orchestration, execution,   *)
(* markets resolving (to YES, once the queue is drained), the resolver and *)
(* the leaderboard runs, every dependency answering.                       *)
(***************************************************************************)
NextBoard ==
    \/ queue = <<>> /\ MarketResolves({"YES"})
    \/ OrchFetchAgents(MaxCycles)
    \/ OrchFetchMarkets({"ok"})
    \/ OrchProcessAgent
    \/ OrchMarket({"ok"}, ModelReplies)
    \/ OrchAgentReturn
    \/ OrchReturn
    \/ OrchEnd
    \/ ExecReceive
    \/ ExecGetAgent({"ok"})
    \/ ExecCreatePaper({"ok"})
    \/ ExecStore({"ok"})
    \/ ExecReturn
    \/ ExecEnd
    \/ queue = <<>> /\ ResFetchMarkets({"ok"}, MaxCycles)
    \/ ResScanPositions({"ok"})
    \/ ResPosition({"ok"})
    \/ ResScanPredictions({"ok"})
    \/ ResPrediction({"ok"})
    \/ ResMarketDone
    \/ ResStats({"ok"})
    \/ ResReturn
    \/ ResEnd
    \/ LbScan(MaxRuns)
    \/ LbScore
    \/ LbEnd

SpecBoard == Init /\ [][NextBoard]_vars

(***************************************************************************)
(* Every handler that reads or writes the agents table: the pipeline and   *)
(* the leaderboard runs of SpecBoard, and between two invocations of these *)
(* the webhook with the status commands, the agent buttons and the         *)
(* strategy dialogue that creates agents.  One user with one agent and one *)
(* market to start with; the further agents are those the user creates.    *)
(***************************************************************************)
InitAgents ==
    /\ InitCommon
    /\ positions = <<>>
    /\ call = NoCall
    /\ queue = <<>>
    /\ nextMessageId = 1
    /\ agents = [a \in {1} |-> AgentRecord(a, YesStrategy)]
    /\ markets = [m \in {1} |-> MarketRecord(m)]

NextAgents ==
    \/ NextBoard
    \/ Quiet /\ Webhook({"/pause", "/resume"}, {"ok"}, MaxUpdates)
    \/ Quiet /\ handle_agent_callback({"pause", "resume"}, UserIds, DOMAIN agents, MaxUpdates)
    \/ Quiet /\ handle_strategy_input({"well_formed"}, {WholeStrategy}, MaxUpdates)
    \/ Quiet /\ handle_strategy_callback({"confirm"}, {"ok"}, MaxUpdates)

SpecAgents == InitAgents /\ [][NextAgents]_vars

(***************************************************************************)
(* Status changes against statistics: the pipeline with every dependency   *)
(* answering, and /pause and /resume commands whose two store calls fall   *)
(* anywhere among the steps of the other handlers.                         *)
(***************************************************************************)
NextRace ==
    \/ queue = <<>> /\ MarketResolves({"YES", "NO"})
    \/ OrchFetchAgents(MaxCycles)
    \/ OrchFetchMarkets({"ok"})
    \/ OrchProcessAgent
    \/ OrchMarket({"ok"}, ResolveReplies)
    \/ OrchAgentReturn
    \/ OrchReturn
    \/ OrchEnd
    \/ ExecReceive
    \/ ExecGetAgent({"ok"})
    \/ ExecCreatePaper({"ok"})
    \/ ExecStore({"ok"})
    \/ ExecReturn
    \/ ExecEnd
    \/ queue = <<>> /\ ResFetchMarkets({"ok"}, MaxCycles)
    \/ ResScanPositions({"ok"})
    \/ ResPosition({"ok"})
    \/ ResScanPredictions({"ok"})
    \/ ResPrediction({"ok"})
    \/ ResMarketDone
    \/ ResStats({"ok"})
    \/ ResReturn
    \/ ResEnd
    \/ StatusRead(MaxUpdates)
    \/ StatusWrite

SpecRace == InitAgents /\ [][NextRace]_vars

(***************************************************************************)
(* Who may change a status: the users of the table send /pause and /resume *)
(* commands and press agent buttons; the callback data of a button is text *)
(* of the update, so the agent identifier in it is any identifier, one of  *)
(* another user's agents or one that is not in the table included.  The    *)
(* updates are handled one after the other.                                *)
(***************************************************************************)
UnknownAgentId == NumAgents + 1

NextOwner ==
    \/ StatusRead(MaxUpdates + 1)
    \/ StatusWrite
    \/ /\ hook.pc = "idle"
       /\ handle_agent_callback({"pause", "resume"}, UserIds, DOMAIN agents \cup {UnknownAgentId}, MaxUpdates + 1)

SpecOwner == Init /\ [][NextOwner]_vars

(***************************************************************************)
(*                              Properties                                 *)
(***************************************************************************)
ConfiguredMaximum(strategy) ==
    IF strategy.maxPositionSize = Absent
    THEN DefaultMaxPositionSize ELSE strategy.maxPositionSize

\* C1: under every scaling rule, known or not, calculate_position_size
\* returns at most riskControls.maxPositionSize (0.20 when not configured),
\* and so does the size of every execution request in the queue.
C1_SizeWithinMaximum ==
    /\ (call.fn = "calculate_position_size" /\ call.done)
          => call.result <= ConfiguredMaximum(agents[1].strategy)
    /\ \A k \in 1..Len(queue) :
          queue[k].agentId \in DOMAIN agents
             => queue[k].size <= ConfiguredMaximum(agents[queue[k].agentId].strategy)

\* a confidence-scaled size above the maximum was computed and queued
C1_Witness ==
    /\ call.fn = "calculate_position_size"
    /\ call.done
    /\ queue # <<>>
    /\ agents[1].strategy.scalingRule = "confidence_scaled"
    /\ agents[1].strategy.baseSize = 400000
    /\ call.prediction.confidence = "very_high"
    /\ call.result = ConfiguredMaximum(agents[1].strategy)
    /\ queue[1].size = call.result

\* C2: a position closed by the resolver stores PnL = size * (1 - entry
\* price) when its side equals the market's outcome and - size * entry
\* price otherwise.
C2_ResolvedPnl ==
    \A i \in 1..Len(positions) :
        positions[i].status = "closed" =>
            LET p == positions[i]
                outcome == markets[p.marketId].outcome
            IN  /\ p.hasPnl
                /\ p.pnl = IF p.direction = outcome
                           THEN p.size * (100 - p.entryPrice)
                           ELSE -(p.size * p.entryPrice)

\* a losing position was closed with a negative PnL
C2_Witness ==
    /\ call.fn = "resolve_position"
    /\ call.done
    /\ positions[1].status = "closed"
    /\ positions[1].direction = "YES"
    /\ markets[1].outcome = "NO"
    /\ positions[1].pnl = -(200000 * 35)

HasFreshPrediction(agent_id, market_id) ==
    \E i \in 1..Len(predictions) :
        /\ predictions[i].agentId = agent_id
        /\ predictions[i].marketId = market_id
        /\ now - predictions[i].createdAt < FreshSeconds

\* C3: when the store holds a prediction of the pair (agent, market) that
\* is less than 3600 seconds old, the orchestrator's iteration for that
\* pair calls no model and creates no prediction and no queue message.
C3_FreshNotRecomputed ==
    [][(/\ orch.pc = "market"
        /\ orch.mi <= Len(orch.relevant)
        /\ orch' # orch
        /\ HasFreshPrediction(orch.agents[orch.ai].agentId,
                              orch.relevant[orch.mi].id))
         => /\ modelCalls' = modelCalls
            /\ predictions' = predictions
            /\ queue' = queue]_vars

\* C4: a cycle produces at most one prediction for a pair (agent, market),
\* and a new prediction is a new record: the table grows by one and the
\* records it held stay as they were.
C4_OnePerCycleAppended ==
    /\ [](\A i, j \in 1..Len(predictions) :
             (/\ i # j
              /\ predictions[i].agentId = predictions[j].agentId
              /\ predictions[i].marketId = predictions[j].marketId)
                => predictions[i].cycle # predictions[j].cycle)
    /\ [][(predictions' # predictions /\ orch' # orch)
            => /\ Len(predictions') = Len(predictions) + 1
               /\ SubSeq(predictions', 1, Len(predictions)) = predictions
               /\ predictions'[Len(predictions')].predictionId
                     = Len(predictions')]_vars

\* a second cycle re-computed a pair: both predictions are in the table
C4_Witness ==
    \E i, j \in 1..Len(predictions) :
        /\ i < j
        /\ predictions[i].agentId = predictions[j].agentId
        /\ predictions[i].marketId = predictions[j].marketId
        /\ predictions[i].cycle = 1
        /\ predictions[j].cycle = 2
        /\ predictions[j].createdAt - predictions[i].createdAt >= FreshSeconds

AgentIsActive(agent_id) ==
    /\ agent_id \in DOMAIN agents
    /\ agents[agent_id].status = "active"

\* C5: the executor goes on to register a paper position and to store a
\* position record only for a request whose agent exists with status
\* active when the request is processed; otherwise the request returns
\* with no position created and is not reported as a failure, and it
\* leaves the queue when the batch returns.
C5_OnlyActiveAgents ==
    [][/\ (/\ exec.pc = "get_agent"
           /\ exec' # exec
           /\ exec.i <= Len(exec.batch))
          => LET message == exec.batch[exec.i]
             IN  /\ exec'.pc = "create_paper"
                       => AgentIsActive(message.agentId)
                 /\ (~AgentIsActive(message.agentId) /\ faults' = faults)
                       => /\ message.messageId \in exec'.returned
                          /\ message.messageId \notin exec'.stored
                          /\ exec'.batch_item_failures = exec.batch_item_failures
                          /\ exec'.i = exec.i + 1
       /\ (positions' # positions \/ paperPositions' # paperPositions)
          => exec.pc \in {"create_paper", "store"}
       /\ (exec.pc = "get_agent" /\ exec'.pc = "done")
          => \A k \in 1..Len(queue') :
                queue'[k].messageId \notin (exec.returned \ exec.stored)]_vars

\* a batch returned in which the request of a paused agent was consumed
\* without a position
C5_Witness ==
    /\ exec.pc = "done"
    /\ \E k \in 1..Len(exec.batch) :
          /\ exec.batch[k].agentId \in DOMAIN agents
          /\ agents[exec.batch[k].agentId].status = "paused"
          /\ exec.batch[k].messageId \in exec.returned \ exec.stored
          /\ \A n \in 1..Len(positions) :
                positions[n].agentId # exec.batch[k].agentId
    /\ exec.batch_item_failures = <<>>

SeqRange(q) == {q[k] : k \in 1..Len(q)}

\* C6: when a batch returns, batchItemFailures lists exactly the message
\* identifiers of the records whose processing raised, each once, and
\* every record of the batch was processed: it either raised or returned.
C6_ExactFailures ==
    exec.pc = "done" =>
        LET batchIds == {exec.batch[k].messageId : k \in 1..Len(exec.batch)}
        IN  /\ SeqRange(exec.batch_item_failures) = exec.raised
            /\ Len(exec.batch_item_failures) = Cardinality(exec.raised)
            /\ exec.raised \cup exec.returned = batchIds
            /\ exec.raised \cap exec.returned = {}

\* the first record of a batch failed and the second one was executed
C6_Witness ==
    /\ exec.pc = "done"
    /\ Len(exec.batch) = 2
    /\ exec.batch_item_failures = <<exec.batch[1].messageId>>
    /\ exec.batch[2].messageId \in exec.stored

QueuedHavePositions ==
    \A k \in 1..Len(queue) :
        \E i \in 1..Len(positions) :
            /\ positions[i].agentId = queue[k].agentId
            /\ positions[i].predictionId = queue[k].predictionId

ForwardStatus(old, new) ==
    \/ new = old
    \/ old = "pending" /\ new \in {"open", "closed"}
    \/ old = "open" /\ new = "closed"

\* C7 as stated: a position record exists (created pending) from the
\* moment its execution request is queued, and its status only moves
\* forward along pending, open, closed.
C7_CreatedWhenQueued ==
    /\ []QueuedHavePositions
    /\ [][\A i \in 1..Len(positions) :
             /\ i <= Len(positions')
             /\ ForwardStatus(positions[i].status, positions'[i].status)]_vars

\* C7 as the code has it: queuing a request creates no position record;
\* the record is created by the executor, in status open, when it executes
\* the request; its only later change is from open to closed, made by the
\* resolver for a resolved market.
C7_Lifecycle ==
    [][/\ Len(queue') > Len(queue) => positions' = positions
       /\ Len(positions') >= Len(positions)
       /\ \A i \in 1..Len(positions') :
            IF i > Len(positions)
            THEN /\ positions'[i].status = "open"
                 /\ Len(positions') = Len(positions) + 1
                 /\ exec.pc = "store"
            ELSE \/ positions'[i] = positions[i]
                 \/ /\ positions[i].status = "open"
                    /\ positions'[i].status = "closed"
                    /\ res.pc = "positions"
                    /\ markets[positions[i].marketId].status = "resolved"]_vars

\* a position went through its whole life: executed, then closed
C7_Witness ==
    \E i \in 1..Len(positions) :
        /\ positions[i].status = "closed"
        /\ positions[i].exitPrice = 100
        /\ \E k \in 1..Len(paperPositions) :
              paperPositions[k].agentId = positions[i].agentId

\* the pairs (agent, market) a run has to go through: every market the
\* strategy of a fetched, well-formed agent selects
RelevantPairs(o) ==
    {pair \in {<<o.agents[k].agentId, o.markets[n].id>> :
                 k \in 1..Len(o.agents), n \in 1..Len(o.markets)} :
        \E k \in 1..Len(o.agents), n \in 1..Len(o.markets) :
            /\ pair = <<o.agents[k].agentId, o.markets[n].id>>
            /\ o.agents[k].strategy.wellFormed
            /\ market_passes(o.markets[n], o.agents[k].strategy, now)}

ResolvedMarketIds == {m \in DOMAIN markets : markets[m].status = "resolved"}

\* C8 as stated: after a failure of the market API or of the model
\* endpoint the run still processes the other records: the orchestrator
\* has an entry for every fetched agent, the resolver has gone through
\* every resolved market.
C8_RunSurvivesUpstreamFailure ==
    /\ (orch.pc = "done" /\ orch.upstream > 0)
          => Len(orch.results) = Len(orch.agents)
    /\ (res.pc = "done" /\ res.upstream > 0)
          => res.markets_seen = ResolvedMarketIds

\* C8 as the code has it: a failure of the model endpoint aborts the
\* iteration of the current market only, the run ends with status 200
\* having gone through every other pair; a failure of the market API when
\* the market list is fetched ends the run with status 500 and no record
\* processed.
C8_UpstreamFailures ==
    /\ (orch.pc = "done" /\ orch.statusCode = 200 /\ orch.markets # <<>>)
          => /\ orch.visited = RelevantPairs(orch)
             /\ Len(orch.results) = Len(orch.agents)
    /\ (orch.pc = "done" /\ orch.statusCode # 200)
          => /\ orch.statusCode = 500
             /\ orch.upstream = 1
             /\ orch.visited = {}
             /\ orch.results = <<>>
    /\ (orch.pc = "done" /\ orch.upstream > 0 /\ orch.visited = {})
          => orch.statusCode = 500
    /\ (res.pc = "done" /\ res.statusCode # 200)
          => /\ res.statusCode = 500
             /\ res.upstream = 1
             /\ res.markets_seen = {}
             /\ res.positions_tried = {}

\* the model failed for one market and the same run made a prediction for
\* another one
C8_Witness ==
    /\ orch.pc = "done"
    /\ orch.statusCode = 200
    /\ orch.upstream = 1
    /\ \E k \in 1..Len(orch.results) :
          /\ orch.results[k].marketsAnalyzed = 2
          /\ orch.results[k].predictions = 1

\* C9: an error on one agent, market or position does not end the batch.
\* A run of the orchestrator that got its markets returns one entry per
\* fetched agent, in order, an error entry exactly for the agents whose
\* processing raised, and has gone through every market of the others; a
\* run of the resolver that got its markets has gone through each of them
\* and has tried every open position it scanned.
C9_RecordErrorsContained ==
    /\ (orch.pc = "done" /\ orch.statusCode = 200 /\ orch.markets # <<>>)
          => /\ Len(orch.results) = Len(orch.agents)
             /\ \A k \in 1..Len(orch.results) :
                   LET agent == orch.agents[k]
                       entry == orch.results[k]
                       selected == {n \in 1..Len(orch.markets) :
                                      market_passes(orch.markets[n],
                                                    agent.strategy, now)}
                   IN  /\ entry.agentId = agent.agentId
                       /\ entry.error = ~agent.strategy.wellFormed
                       /\ ~entry.error =>
                            /\ entry.marketsAnalyzed = Cardinality(selected)
                            /\ \A n \in selected :
                                 <<agent.agentId, orch.markets[n].id>>
                                    \in orch.visited
    /\ (res.pc = "done" /\ res.statusCode = 200 /\ res.markets # <<>>)
          => /\ res.markets_seen = {res.markets[k].id : k \in 1..Len(res.markets)}
             /\ res.scanned \subseteq res.positions_tried
             /\ SeqRange(res.stats_order) = res.agents_updated
             /\ res.si = Len(res.stats_order) + 1

\* one agent's processing raised, the run went on and the next agent got
\* its prediction
C9_Witness ==
    /\ orch.pc = "done"
    /\ Len(orch.results) = 2
    /\ orch.results[1].error
    /\ ~orch.results[2].error
    /\ orch.results[2].predictions = 1

\* C10: the webhook answers every update with status 200.
C10_AlwaysOk ==
    hook.updates > 0 => hook.statusCode = 200

\* a /pause whose handling raised was answered with 200
C10_Witness ==
    /\ hook.updates > 0
    /\ hook.body = "/pause"
    /\ hook.raised
    /\ hook.statusCode = 200

listing(period) == {k \in DOMAIN leaderboard : k[1] = period}

\* a leaderboard run has ended that found agents with a trade
RankingRunOver ==
    /\ lb.run > 0
    /\ lb.pc \in {"done", "idle"}
    /\ lb.items # <<>>

\* C12: a leaderboard run writes, for each period, entries with the ranks
\* exactly 1..N, N the number of agents with at least one trade, and with
\* scores that do not increase along the ranks.
C12_DenseRanks ==
    RankingRunOver =>
        \A period \in Periods :
            /\ {k[2] : k \in listing(period)} = 1..Len(lb.items)
            /\ Cardinality(listing(period)) = Len(lb.items)
            /\ \A i \in 1..(Len(lb.items) - 1) :
                   leaderboard[<<period, i>>].score
                       >= leaderboard[<<period, i + 1>>].score

\* C13: after a leaderboard run the stored listing of each period is that
\* run's: every agent it had to rank is in exactly one entry of the period
\* and no entry is about another agent.
C13_ListingIsLatestRun ==
    RankingRunOver =>
        \A period \in Periods :
            /\ \A i \in 1..Len(lb.items) :
                   Cardinality({k \in listing(period) :
                       leaderboard[k].agentId = lb.items[i].agentId}) = 1
            /\ \A k \in listing(period) :
                   \E i \in 1..Len(lb.items) :
                       leaderboard[k].agentId = lb.items[i].agentId

\* C14: with PnL and prediction accuracy fixed, the composite score does
\* not decrease when the win rate grows at a fixed trade count, nor when
\* the trade count grows at a fixed win rate.
C14_ScoreMonotone ==
    (call.fn = "composite_score" /\ call.done) =>
        LET t1 == call.left.total_trades
            w1 == call.left.winning_trades
            t2 == call.right.total_trades
            w2 == call.right.winning_trades
        IN  /\ (t1 = t2 /\ w1 <= w2) => call.scores[1] <= call.scores[2]
            /\ (w1 * t2 = w2 * t1 /\ t1 <= t2)
                   => call.scores[1] <= call.scores[2]

\* both directions were compared on scores that differ: a higher win rate
\* at 4 trades, and 150 against 100 trades (past the cap) against 2 trades
\* at the win rate one half
C14_Witness ==
    /\ call.fn = "composite_score"
    /\ call.done
    /\ \/ /\ call.left.total_trades = 4
          /\ call.right.total_trades = 4
          /\ call.left.winning_trades = 2
          /\ call.right.winning_trades = 3
          /\ call.scores[1] < call.scores[2]
       \/ /\ call.left.total_trades = 2
          /\ call.right.total_trades = 100
          /\ call.right.winning_trades = 50
          /\ call.scores[1] < call.scores[2]

\* the number of the agent's predictions marked correct and the number of
\* those with an outcome
predictions_correct(agent_id) ==
    Cardinality({i \in 1..Len(predictions) :
        predictions[i].agentId = agent_id /\ predictions[i].wasCorrect = "True"})

predictions_with_outcome(agent_id) ==
    Cardinality({i \in 1..Len(predictions) :
        predictions[i].agentId = agent_id /\ predictions[i].wasCorrect # "None"})

\* C15: every agent a leaderboard run had to rank has the score
\* 0.4 win rate + 0.3 clamp(PnL / 100) + 0.2 min(trades / 100, 1)
\* + 0.1 accuracy in the listing.
C15_ScoreFormula ==
    RankingRunOver =>
        \A i \in 1..Len(lb.items) :
            \E k \in listing("all_time") :
                /\ leaderboard[k].agentId = lb.items[i].agentId
                /\ leaderboard[k].score =
                       composite_score(
                           lb.items[i].totalTrades,
                           lb.items[i].winningTrades,
                           lb.items[i].totalPnl \div 100,
                           predictions_correct(lb.items[i].agentId),
                           predictions_with_outcome(lb.items[i].agentId))

\* C16: an agent record is never removed and its identifier, its user, its
\* chat and its strategy document never change, whatever handler runs.
C16_AgentFrame ==
    [][\A a \in DOMAIN agents :
          /\ a \in DOMAIN agents'
          /\ agents'[a].agentId = agents[a].agentId
          /\ agents'[a].userId = agents[a].userId
          /\ agents'[a].telegramChatId = agents[a].telegramChatId
          /\ agents'[a].strategy = agents[a].strategy]_vars

\* an agent created by the strategy dialogue has had its counters
\* recomputed after a trade, and a leaderboard run has come after
C16_Witness ==
    /\ lb.run > 0
    /\ lb.pc = "idle"
    /\ \E a \in DOMAIN agents :
          /\ a # 1
          /\ agents[a].strategy = WholeStrategy
          /\ agents[a].totalTrades > 0

\* the identifiers of the markets the running resolver was given
ReportedResolved == {res.markets[k].id : k \in 1..Len(res.markets)}

ResolverRunOver == res.pc = "done" /\ res.statusCode = 200

\* C17: when a resolver run is over, every position on a market reported
\* as resolved is closed; a closed position has exit price 1 when its side
\* is the market's outcome and 0 otherwise; and no step changes a position
\* that is not open or whose market was not reported as resolved.
C17_OpenPositionsClosed ==
    /\ [](ResolverRunOver =>
             \A i \in 1..Len(positions) :
                 positions[i].marketId \in ReportedResolved
                     => positions[i].status = "closed")
    /\ [](\A i \in 1..Len(positions) :
             positions[i].status = "closed" =>
                 /\ markets[positions[i].marketId].status = "resolved"
                 /\ positions[i].exitPrice =
                        IF positions[i].direction
                               = markets[positions[i].marketId].outcome
                        THEN 100 ELSE 0)
    /\ [][\A i \in 1..Len(positions) :
             positions'[i] # positions[i] =>
                 /\ positions[i].status = "open"
                 /\ positions[i].marketId \in ReportedResolved]_vars

\* a run is over that closed a winning and a losing position and left a
\* position on an active market open
C17_Witness ==
    /\ ResolverRunOver
    /\ \E i, j, k \in 1..Len(positions) :
          /\ positions[i].status = "closed" /\ positions[i].exitPrice = 100
          /\ positions[j].status = "closed" /\ positions[j].exitPrice = 0
          /\ positions[k].status = "open"
          /\ markets[positions[k].marketId].status = "active"

\* C18: a prediction carries an annotation only for a resolved market, the
\* annotation is the market's outcome with correct iff the recommended side
\* is that outcome, a finished resolver run leaves no prediction of a
\* reported market without it, and no step changes an annotated prediction.
C18_PredictionsAnnotated ==
    /\ [](\A i \in 1..Len(predictions) :
             predictions[i].wasCorrect # "None" =>
                 /\ markets[predictions[i].marketId].status = "resolved"
                 /\ predictions[i].actualOutcome
                        = markets[predictions[i].marketId].outcome
                 /\ (predictions[i].wasCorrect = "True"
                        <=> predictions[i].recommendedDirection
                               = markets[predictions[i].marketId].outcome))
    /\ [](ResolverRunOver =>
             \A i \in 1..Len(predictions) :
                 predictions[i].marketId \in ReportedResolved
                     => predictions[i].wasCorrect # "None")
    /\ [][\A i \in 1..Len(predictions) :
             predictions[i].wasCorrect # "None"
                 => predictions'[i] = predictions[i]]_vars

\* a second resolver run is going through the predictions of a market and
\* has passed one that an earlier run annotated as wrong
C18_Witness ==
    /\ res.run >= 2
    /\ res.pc = "predictions"
    /\ res.qi > 1
    /\ res.preds[1].wasCorrect = "False"
    /\ \E i \in 1..Len(predictions) : predictions[i].wasCorrect = "True"

Tier(name) ==
    CASE name = "low" -> 0 [] name = "medium" -> 1
      [] name = "high" -> 2 [] name = "very_high" -> 3

\* what a condition's field reads from a prediction, and the configured
\* value it is compared with
FieldValue(c, p) ==
    CASE c.field = "edge" -> p.edge
      [] c.field = "confidence" -> Tier(p.confidence)
      [] c.field = "market_probability" -> p.marketProbability
      [] c.field = "forecast_probability" -> p.predictedProbability

Configured(c) ==
    IF c.field = "confidence" /\ c.isStr
    THEN (IF c.value \in Confidences THEN Tier(c.value) ELSE 1)
    ELSE c.value

ConditionTrue(c, p) ==
    \/ c.field \notin {"edge", "confidence", "market_probability",
                        "forecast_probability"}
    \/ c.operator \notin {"gt", "lt", "gte", "lte", "eq"}
    \/ c.operator = "gt" /\ FieldValue(c, p) > Configured(c)
    \/ c.operator = "lt" /\ FieldValue(c, p) < Configured(c)
    \/ c.operator = "gte" /\ FieldValue(c, p) >= Configured(c)
    \/ c.operator = "lte" /\ FieldValue(c, p) <= Configured(c)
    \/ c.operator = "eq" /\ FieldValue(c, p) = Configured(c)

EntryThresholdsMet(p, s) ==
    /\ Tier(p.confidence) >= (IF s.minConfidence \in Confidences
                               THEN Tier(s.minConfidence) ELSE 1)
    /\ p.edge >= (IF s.minEdge = Absent THEN 5 ELSE s.minEdge)
    /\ \A k \in 1..Len(s.entryConditions) :
          ConditionTrue(s.entryConditions[k], p)

\* C20: a step that stores a new prediction appends an execution request
\* for it to the queue if and only if the prediction's confidence tier is
\* at least the strategy's minConfidence (medium when absent), its edge is
\* at least minEdge (0.05 when absent) and every entry condition is true,
\* a condition on an unrecognized field or operator being true; and the
\* queue grows in no other step.
C20_EnqueueIffThresholds ==
    [][/\ Len(predictions') = Len(predictions) + 1 =>
            LET p == predictions'[Len(predictions')]
                s == agents[p.agentId].strategy
            IN  IF EntryThresholdsMet(p, s)
                THEN /\ Len(queue') = Len(queue) + 1
                     /\ queue'[Len(queue')].predictionId = p.predictionId
                     /\ queue'[Len(queue')].agentId = p.agentId
                     /\ queue'[Len(queue')].marketId = p.marketId
                ELSE queue' = queue
       /\ Len(predictions') = Len(predictions) => queue' = queue]_vars

\* a strategy whose only condition names an unrecognized field or operator
\* has a request in the queue for one prediction and none for another
C20_Witness ==
    /\ \E a \in DOMAIN agents :
          \E k \in 1..Len(agents[a].strategy.entryConditions) :
              \/ agents[a].strategy.entryConditions[k].field
                     = "temperature_delta"
              \/ agents[a].strategy.entryConditions[k].operator = "between"
    /\ \E i, j \in 1..Len(predictions) :
          /\ \E q \in 1..Len(queue) :
                queue[q].predictionId = predictions[i].predictionId
          /\ \A q \in 1..Len(queue) :
                queue[q].predictionId # predictions[j].predictionId

\* the claim's test of one market against a market selection
Kept(m, s, clock) ==
    LET seconds == m.resolutionTime - clock
    IN  /\ s.types = {} \/ m.type \in s.types
        /\ s.locations = {} \/ m.location \in s.locations
        /\ \/ s.timeHorizon = {}
           \/ "same_day" \in s.timeHorizon /\ seconds <= 24 * 3600
           \/ /\ "next_day" \in s.timeHorizon
              /\ seconds > 24 * 3600 /\ seconds <= 48 * 3600
           \/ /\ "weekly" \in s.timeHorizon
              /\ seconds > 48 * 3600 /\ seconds <= 168 * 3600

\* C21: the filtered list holds exactly the given markets that pass the
\* type, location and time-horizon tests, each once, in the order in which
\* they were given.
C21_FilterKeepsMatching ==
    (call.fn = "filter_markets_for_strategy" /\ call.done) =>
        LET given == call.markets
            kept == call.result
            s == agents[1].strategy
        IN  /\ \A i \in 1..Len(given) :
                  (\E j \in 1..Len(kept) : kept[j] = given[i])
                      <=> Kept(given[i], s, now)
            /\ \A j \in 1..Len(kept) : \E i \in 1..Len(given) : kept[j] = given[i]
            /\ \A j1, j2 \in 1..Len(kept) :
                  j1 < j2 =>
                      \E i1, i2 \in 1..Len(given) :
                          /\ i1 < i2
                          /\ given[i1] = kept[j1]
                          /\ given[i2] = kept[j2]

\* a time-horizon list dropped the middle market of the three and kept the
\* other two
C21_Witness ==
    /\ call.fn = "filter_markets_for_strategy"
    /\ call.done
    /\ agents[1].strategy.timeHorizon # {}
    /\ Len(call.result) = 2
    /\ call.result[1].id = 2
    /\ call.result[2].id = 1

\* the size the four rules give before the maximum applies, in millionths
\* of a TON; edge and probability are in hundredths
ClaimedSize(p, s) ==
    LET base == IF s.baseSize = Absent THEN 50000 ELSE s.baseSize
    IN  CASE s.scalingRule = "confidence_scaled" ->
               (CASE p.confidence = "low" -> base \div 2
                  [] p.confidence = "medium" -> base
                  [] p.confidence = "high" -> (3 * base) \div 2
                  [] p.confidence = "very_high" -> 2 * base)
          [] s.scalingRule = "edge_scaled" ->
               IF 10 * p.edge >= 200 THEN 2 * base
               ELSE (base * p.edge) \div 10
          [] s.scalingRule = "kelly" ->
               IF 2 * p.predictedProbability > 100
               THEN (base * (2 * p.predictedProbability - 100)) \div 200
               ELSE 0
          [] OTHER -> base

\* C22: the size calculate_position_size returns is the smaller of the
\* configured maximum and: base for fixed and for an unrecognized rule,
\* base times the tier multiplier 0.5 / 1 / 1.5 / 2 for confidence_scaled,
\* base times min(10 * edge, 2) for edge_scaled, base times
\* max(0, 2p - 1) / 2 for kelly.
C22_ScalingFormulas ==
    (call.fn = "calculate_position_size" /\ call.done) =>
        LET claimed == ClaimedSize(call.prediction, agents[1].strategy)
            maximum == IF agents[1].strategy.maxPositionSize = Absent
                       THEN 200000
                       ELSE agents[1].strategy.maxPositionSize
        IN  call.result = IF claimed <= maximum THEN claimed ELSE maximum

\* a half-Kelly size below the maximum: 0.4 * (2 * 0.75 - 1) / 2 = 0.1
C22_Witness ==
    /\ call.fn = "calculate_position_size"
    /\ call.done
    /\ agents[1].strategy.scalingRule = "kelly"
    /\ agents[1].strategy.baseSize = 400000
    /\ agents[1].strategy.maxPositionSize = Absent
    /\ call.prediction.predictedProbability = 75
    /\ call.result = 100000

\* the last status command got as far as its write
StatusWritten == hook.pc = "idle" /\ "agent_id" \in DOMAIN hook

\* C23: whatever the order of the store calls of a status command and of a
\* resolver run, the agent record carries the status the command wrote
\* once the command is over and the counters of its closed positions once
\* the run is over.
C23_NoLostUpdate ==
    /\ StatusWritten => agents[hook.agent_id].status = hook.status
    /\ res.pc \in {"idle", "done"} =>
          \A a \in DOMAIN agents :
              LET closed == {i \in 1..Len(positions) :
                                /\ positions[i].agentId = a
                                /\ positions[i].status = "closed"}
                  won == {i \in closed : positions[i].pnl > 0}
              IN  closed # {} =>
                    /\ agents[a].totalTrades = Cardinality(closed)
                    /\ agents[a].winningTrades = Cardinality(won)
                    /\ agents[a].totalPnl = SumPnl(positions, closed)

\* a /pause read the agent before the resolver wrote its counters and wrote
\* the status after it; the record has both
C23_Witness ==
    /\ StatusWritten
    /\ hook.body = "/pause"
    /\ hook.read_at = "stats"
    /\ hook.read_trades = 0
    /\ hook.written_at = "done"
    /\ res.pc = "done"
    /\ agents[hook.agent_id].status = "paused"
    /\ agents[hook.agent_id].totalTrades = 1

\* the identifiers of the agents the running cycle fetched
FetchedAgents == {orch.agents[k].agentId : k \in 1..Len(orch.agents)}

\* C24: the step that fetches a cycle's agents takes exactly the agents
\* stored as active at that moment, the list stays as fetched until the
\* next cycle, and every prediction stored and every request queued is for
\* an agent of the list of the cycle that is running.
C24_OnlyFetchedActive ==
    [][/\ (orch.pc = "idle" /\ orch'.pc # "idle") =>
            {orch'.agents[k].agentId : k \in 1..Len(orch'.agents)}
                = {a \in DOMAIN agents : agents[a].status = "active"}
       /\ orch.pc # "idle" =>
            (orch'.agents = orch.agents \/ orch'.pc = "idle")
       /\ Len(predictions') > Len(predictions) =>
            /\ orch.pc # "idle"
            /\ predictions'[Len(predictions')].agentId \in FetchedAgents
            /\ predictions'[Len(predictions')].cycle = orch.cycle
       /\ Len(queue') > Len(queue) =>
            /\ orch.pc # "idle"
            /\ queue'[Len(queue')].agentId \in FetchedAgents]_vars

\* an agent was paused through the first cycle, which stored a prediction
\* for another agent and none for it, and has a prediction from the second
\* cycle, after its resume
C24_Witness ==
    /\ hook.updates >= 2
    /\ \E a, b \in DOMAIN agents :
          /\ a # b
          /\ \E i \in 1..Len(predictions) :
                predictions[i].agentId = b /\ predictions[i].cycle = 1
          /\ \A i \in 1..Len(predictions) :
                predictions[i].agentId = a => predictions[i].cycle = 2
          /\ \E i \in 1..Len(predictions) : predictions[i].agentId = a
          /\ \E k \in 1..Len(queue) : queue[k].agentId = a

\* C25: a confirmation for a chat that has a pending strategy adds exactly
\* one agent, active, for that chat and with that strategy, changes no
\* other agent and leaves the chat without a pending strategy; a
\* confirmation for a chat without one adds nothing.
C25_ConfirmCreatesOnce ==
    [][(/\ hook'.updates = hook.updates + 1
        /\ hook'.body = "confirm"
        /\ "chat_id" \in DOMAIN hook') =>
          LET c == hook'.chat_id
              added == DOMAIN agents' \ DOMAIN agents
          IN  /\ \A a \in DOMAIN agents :
                    a \in DOMAIN agents' /\ agents'[a] = agents[a]
              /\ IF c \in DOMAIN userState
                 THEN /\ Cardinality(added) = 1
                      /\ \A a \in added :
                            /\ agents'[a].status = "active"
                            /\ agents'[a].telegramChatId = c
                            /\ agents'[a].strategy
                                  = userState[c].pending_strategy
                      /\ c \notin DOMAIN userState'
                 ELSE added = {} /\ userState' = userState]_vars

\* C26: every queued request carries the side YES or NO, which is the
\* strategy's positionDirection when that is YES or NO and the side the
\* prediction recommends otherwise, and its entry price is the market's
\* yes price for YES and its no price for NO.
C26_SideIsYesOrNo ==
    call.fn = "calculate_position_size" =>
        \A k \in 1..Len(queue) :
            LET strategy == agents[queue[k].agentId].strategy
                market == markets[queue[k].marketId]
            IN  /\ queue[k].direction \in {"YES", "NO"}
                /\ queue[k].direction =
                      IF strategy.positionDirection \in {"YES", "NO"}
                      THEN strategy.positionDirection
                      ELSE call.prediction.recommendedDirection
                /\ queue[k].direction = "YES"
                      => queue[k].entryPrice = market.yesPrice
                /\ queue[k].direction = "NO"
                      => queue[k].entryPrice = market.noPrice

\* the number of paper positions the market API registered for a request
PaperPositionsOf(message_id) ==
    Cardinality({k \in 1..Len(paperPositions) :
                   paperPositions[k].messageId = message_id})

\* the number of position records stored for the prediction of a request
PositionRecordsOf(prediction_id) ==
    Cardinality({i \in 1..Len(positions) :
                   positions[i].predictionId = prediction_id})

\* C27: over all deliveries of one execution request, redeliveries of
\* the messages reported as failed included, at most one paper position
\* is registered with the market API and at most one position record is
\* stored.
C27_AtMostOnce ==
    /\ \A message_id \in 1..(nextMessageId - 1) :
          PaperPositionsOf(message_id) <= 1
    /\ \A prediction_id \in 1..Len(predictions) :
          PositionRecordsOf(prediction_id) <= 1

\* the part of C27 about the stored records alone
C27_OneRecordStored ==
    \A prediction_id \in 1..Len(predictions) :
        PositionRecordsOf(prediction_id) <= 1

\* C28: whatever the interleaving of the webhook and the executor, no
\* position record is persisted for an agent while its stored status is
\* paused, requests queued before the pause included.
C28_NoPositionWhilePaused ==
    [][Len(positions') > Len(positions)
          => LET agent_id == positions'[Len(positions')].agentId
             IN  agent_id \in DOMAIN agents
                    => agents[agent_id].status # "paused"]_vars

\* the agents whose item a step wrote
Written == {a \in DOMAIN agents' : a \notin DOMAIN agents \/ agents'[a] # agents[a]}

OwnedBy(a, user_id) ==
    /\ a \in WholeAgents
    /\ agents[a].userId = user_id

\* C29: a webhook update changes the status of an agent only if the agent
\* belongs to the user who sent it, be it a /pause or /resume command or
\* an agent pause or resume callback, and it creates no item for an agent
\* identifier that is not in the table.
C29_OwnerOnly ==
    [][agents' # agents
          => /\ DOMAIN agents' = DOMAIN agents
             /\ \A a \in Written : OwnedBy(a, hook'.user_id)]_vars

\* the part of C29 about the commands alone
C29_CommandsOwnerOnly ==
    [][(agents' # agents /\ hook.pc = "write")
          => /\ DOMAIN agents' = DOMAIN agents
             /\ \A a \in Written : OwnedBy(a, hook'.user_id)]_vars

\* the counters of the agents
AgentCounters(table) ==
    [a \in DOMAIN table |->
        <<table[a].totalTrades, table[a].winningTrades, table[a].totalPnl>>]

\* a step of the resolver in a run that follows another run with no
\* market resolved and no batch executed since that run began
RerunStep ==
    /\ res' # res
    /\ res'.run = MaxRuns
    /\ res'.run > 1

\* C30: a resolver run over the resolved markets that the run before it
\* went over, with no executor run in between, writes nothing: no
\* position record, no prediction record and no agent counter changes
\* and the run counts no update; and no step at all changes a closed
\* position.
C30_ResolverIdempotent ==
    [][/\ RerunStep
          => /\ positions' = positions
             /\ predictions' = predictions
             /\ AgentCounters(agents') = AgentCounters(agents)
             /\ res'.pc # "idle"
                   => /\ res'.positions_updated = 0
                      /\ res'.predictions_updated = 0
                      /\ res'.agents_updated = {}
       /\ \A i \in 1..Len(positions) :
             positions[i].status = "closed"
                => /\ i <= Len(positions')
                   /\ positions'[i] = positions[i]]_vars

\* the second run is over: it went over a resolved market on which the
\* run before it had closed a position, annotated a prediction and
\* counted a trade
C30_Witness ==
    /\ res.pc = "done"
    /\ res.run = MaxRuns
    /\ res.run > 1
    /\ \E i \in 1..Len(positions), p \in 1..Len(predictions) :
          /\ positions[i].status = "closed"
          /\ positions[i].marketId \in res.markets_seen
          /\ predictions[p].marketId = positions[i].marketId
          /\ predictions[p].wasCorrect # "None"
          /\ agents[positions[i].agentId].totalTrades > 0

====
